---- MODULE Spec2Model ----
(***************************************************************************)
(* FetchInterceptor of chromerd (src/src/fetch.ts): the route table, the   *)
(* two-phase requestPaused dispatcher, the invocation context and return   *)
(* value with their change detection, and the body parsers.                *)
(*                                                                         *)
(* Representation.  A JavaScript string whose content the code inspects   *)
(* (a header name or value, a map key or value, a body, a path segment, a  *)
(* query string) is the sequence of its pieces: single characters where    *)
(* the code looks at characters (header names), lexical tokens elsewhere.  *)
(* A byte buffer is the sequence of the pieces of its UTF-8 text.  Strings *)
(* that are only compared as a whole (method, origin, request id, status   *)
(* text) are TLA+ strings.  A JavaScript Map or plain object is the        *)
(* sequence of its <<key, value>> entries in insertion order, keys unique. *)
(* A JS object with optional fields (a pause event, a protocol command) is *)
(* a record holding exactly the fields that are present.                   *)
(***************************************************************************)
EXTENDS Integers, Sequences, FiniteSets, TLC

\* ------------------------------------------------------------------------
\* Bounds of the model
\* ------------------------------------------------------------------------

\* At most this many successful registrations are explored.
MaxRoutes == 2

\* any() is explored on a table of at most this many routes.
MaxRoutesBeforeAny == 1

\* At most this many of the methods that only any() registers have had an
\* event dispatched (each dispatch caches the route array of its method).
MaxAnyCached == 1

\* ------------------------------------------------------------------------
\* JavaScript built-ins used by the code
\* ------------------------------------------------------------------------

\* The value `undefined`, kept apart from every string of the model.
Undefined == <<"undefined">>

UpperLetters ==
    <<"A","B","C","D","E","F","G","H","I","J","K","L","M",
      "N","O","P","Q","R","S","T","U","V","W","X","Y","Z">>

LowerLetters ==
    <<"a","b","c","d","e","f","g","h","i","j","k","l","m",
      "n","o","p","q","r","s","t","u","v","w","x","y","z">>

IsUpperChar(c) == \E i \in DOMAIN UpperLetters : UpperLetters[i] = c

\* One character of String.prototype.toLowerCase (ASCII).
ToLowerChar(c) ==
    IF IsUpperChar(c)
    THEN LowerLetters[CHOOSE i \in DOMAIN UpperLetters : UpperLetters[i] = c]
    ELSE c

\* String.prototype.toLowerCase on a string given as its characters.
ToLowerCase(name) == [i \in DOMAIN name |-> ToLowerChar(name[i])]

\* /[A-Z]/.test(name)
HasUpperCase(name) == \E i \in DOMAIN name : IsUpperChar(name[i])

\* Map.prototype.has
MapHas(m, k) == \E i \in DOMAIN m : m[i][1] = k

\* Map.prototype.get
MapGet(m, k) ==
    IF MapHas(m, k)
    THEN m[CHOOSE i \in DOMAIN m : m[i][1] = k][2]
    ELSE Undefined

\* Map.prototype.set: an existing key keeps its position, a new key is
\* appended.
MapSet(m, k, v) ==
    IF MapHas(m, k)
    THEN [i \in DOMAIN m |-> IF m[i][1] = k THEN <<k, v>> ELSE m[i]]
    ELSE Append(m, <<k, v>>)

\* Map.prototype.delete
MapDelete(m, k) == SelectSeq(m, LAMBDA e : e[1] # k)

\* Map.prototype.keys, as a set
MapKeys(m) == {m[i][1] : i \in DOMAIN m}

\* new Map(entries) / Object.fromEntries(entries): a later entry with the
\* same key overwrites the value and keeps the first position.
RECURSIVE MapFromEntries(_)
MapFromEntries(entries) ==
    IF entries = <<>>
    THEN <<>>
    ELSE LET n == Len(entries)
         IN  MapSet(MapFromEntries(SubSeq(entries, 1, n - 1)),
                    entries[n][1], entries[n][2])

\* ------------------------------------------------------------------------
\* path-to-regexp: match(template) and compile(template)
\* A pathname is the sequence of its segments; a template segment is
\* <<"lit", text>> or <<"param", name>>.
\* ------------------------------------------------------------------------

\* match(template)(pathname) accepts the pathname.
MatchFn(template, pathname) ==
    /\ Len(template) = Len(pathname)
    /\ \A i \in DOMAIN template :
          template[i][1] = "lit" => template[i][2] = pathname[i]

\* (matcher(pathname) || { params: {} }).params: the params object of a
\* successful match, as entries in template order; {} without a match.
MatchParams(template, pathname) ==
    IF MatchFn(template, pathname)
    THEN LET idx == SelectSeq([i \in DOMAIN template |-> i],
                              LAMBDA i : template[i][1] = "param")
         IN  [j \in DOMAIN idx |-> <<template[idx[j]][2], pathname[idx[j]]>>]
    ELSE <<>>

\* compile(template)(params) throws when a parameter of the template is
\* missing from params.
CompileThrows(template, params) ==
    \E i \in DOMAIN template :
        template[i][1] = "param" /\ ~MapHas(params, template[i][2])

\* compile(template)(params): the pathname the template generates.
CompileFn(template, params) ==
    [i \in DOMAIN template |->
        IF template[i][1] = "param"
        THEN MapGet(params, template[i][2])
        ELSE template[i][2]]

\* ------------------------------------------------------------------------
\* Methods
\* ------------------------------------------------------------------------

AllInvocationMethods ==
    <<"GET", "HEAD", "POST", "PUT", "DELETE", "OPTIONS", "TRACE", "PATCH">>

\* A method check that accepts every method.
IsInvocationMethodAny(value) == TRUE

\* AllInvocationMethods.includes(value)
IsInvocationMethod(value) ==
    \E i \in DOMAIN AllInvocationMethods : AllInvocationMethods[i] = value

\* ------------------------------------------------------------------------
\* Text, bytes and base64
\* ------------------------------------------------------------------------

\* A byte that is not valid UTF-8, and the replacement character a decoder
\* puts in its place.
InvalidByte == "\\xFF"
ReplacementChar == "\\uFFFD"

\* A lone surrogate: a UTF-16 code unit that has no UTF-8 encoding.
LoneSurrogate == "\\uD800"

\* new TextEncoder().encode(text): the UTF-8 bytes of a string; a lone
\* surrogate is encoded as the replacement character.
TextEncode(text) ==
    [i \in DOMAIN text |->
        IF text[i] = LoneSurrogate THEN ReplacementChar ELSE text[i]]

\* new TextDecoder('utf-8').decode(bytes) and Buffer.toString('utf8'):
\* invalid bytes decode to the replacement character.
TextDecode(bytes) ==
    [i \in DOMAIN bytes |->
        IF bytes[i] = InvalidByte THEN ReplacementChar ELSE bytes[i]]

\* A string that crosses the protocol: plain text, or the base64 text of
\* some bytes.
PlainString(text) == [base64 |-> FALSE, data |-> text]

\* Buffer.from(bytes).toString('base64')
ToBase64(bytes) == [base64 |-> TRUE, data |-> bytes]

\* Buffer.from(str, 'base64'): the bytes of a base64 text; characters
\* outside the base64 alphabet are skipped.
FromBase64(str) == IF str.base64 THEN str.data ELSE <<>>

\* ------------------------------------------------------------------------
\* JSON.parse / JSON.stringify on flat objects with string values
\* ------------------------------------------------------------------------

Quote == "\""
Backslash == "\\"

\* What follows the backslash in the escape JSON.stringify writes for a
\* lone surrogate.
SurrogateEscape == "ud800"

\* The keys that are array indices, in ascending order: an object
\* enumerates them first.
IndexKeys == << <<"1">>, <<"2">> >>

\* The own properties of an object in the order the language enumerates
\* them: array indices ascending, then the other keys in insertion order.
PropertyOrder(obj) ==
    [i \in DOMAIN SelectSeq(IndexKeys, LAMBDA k : MapHas(obj, k)) |->
        <<SelectSeq(IndexKeys, LAMBDA k : MapHas(obj, k))[i],
          MapGet(obj, SelectSeq(IndexKeys, LAMBDA k : MapHas(obj, k))[i])>>]
    \o SelectSeq(obj, LAMBDA en :
                    \A j \in DOMAIN IndexKeys : IndexKeys[j] # en[1])

\* Object.fromEntries(entries)
ObjectFromEntries(entries) == PropertyOrder(MapFromEntries(entries))

JsonFail == [ok |-> FALSE, str |-> <<>>, entries |-> <<>>, next |-> 0]

\* Reads a string literal whose opening quote is before pos.
RECURSIVE JsonString(_, _, _)
JsonString(s, pos, acc) ==
    IF pos > Len(s)
    THEN JsonFail
    ELSE IF s[pos] = Quote
    THEN [ok |-> TRUE, str |-> acc, entries |-> <<>>, next |-> pos + 1]
    ELSE IF s[pos] = Backslash
    THEN IF pos + 1 <= Len(s) /\ s[pos + 1] \in {Quote, Backslash}
         THEN JsonString(s, pos + 2, Append(acc, s[pos + 1]))
         ELSE IF pos + 1 <= Len(s) /\ s[pos + 1] = SurrogateEscape
         THEN JsonString(s, pos + 2, Append(acc, LoneSurrogate))
         ELSE JsonFail
    ELSE JsonString(s, pos + 1, Append(acc, s[pos]))

\* Reads `"key":"value"` members from pos up to the closing brace, which
\* must end the text: the opening quote of a key, the key k and the colon
\* after it, then the value v and what follows it.
RECURSIVE JsonMembers(_, _, _)
RECURSIVE JsonMemberKey(_, _, _)
RECURSIVE JsonMemberValue(_, _, _, _)
JsonMemberValue(s, acc, k, v) ==
    IF ~v.ok \/ v.next > Len(s)
    THEN JsonFail
    ELSE IF s[v.next] = "}" /\ v.next = Len(s)
    THEN [ok |-> TRUE, str |-> <<>>,
          entries |-> Append(acc, <<k.str, v.str>>), next |-> v.next + 1]
    ELSE IF s[v.next] = ","
    THEN JsonMembers(s, v.next + 1, Append(acc, <<k.str, v.str>>))
    ELSE JsonFail

JsonMemberKey(s, acc, k) ==
    IF ~k.ok \/ k.next + 1 > Len(s)
       \/ s[k.next] # ":" \/ s[k.next + 1] # Quote
    THEN JsonFail
    ELSE JsonMemberValue(s, acc, k, JsonString(s, k.next + 2, <<>>))

JsonMembers(s, pos, acc) ==
    IF pos > Len(s) \/ s[pos] # Quote
    THEN JsonFail
    ELSE JsonMemberKey(s, acc, JsonString(s, pos + 1, <<>>))

\* Object.entries of the parsed members r: a repeated key keeps its last
\* value.
JsonObject(r) ==
    IF r.ok
    THEN [r EXCEPT !.entries = ObjectFromEntries(r.entries)]
    ELSE JsonFail

\* JSON.parse(s) followed by Object.entries: the entries of the object, or
\* failure (JSON.parse throws).
JsonParse(s) ==
    IF s = <<"{", "}">>
    THEN [ok |-> TRUE, str |-> <<>>, entries |-> <<>>, next |-> 3]
    ELSE IF Len(s) >= 1 /\ s[1] = "{"
    THEN JsonObject(JsonMembers(s, 2, <<>>))
    ELSE JsonFail

\* The text of a string literal written without any escape.
JsonQuoteUnescaped(str) == str

\* The text of a string literal: quotes and backslashes are escaped, and a
\* lone surrogate is written as an escape.
RECURSIVE JsonQuote(_)
JsonQuote(str) ==
    IF str = <<>>
    THEN <<>>
    ELSE (IF str[1] \in {Quote, Backslash}
          THEN <<Backslash, str[1]>>
          ELSE IF str[1] = LoneSurrogate
          THEN <<Backslash, SurrogateEscape>>
          ELSE <<str[1]>>) \o JsonQuote(Tail(str))

RECURSIVE JsonStringifyMembers(_)
JsonStringifyMembers(obj) ==
    IF obj = <<>>
    THEN <<>>
    ELSE <<Quote>> \o JsonQuote(obj[1][1]) \o <<Quote, ":", Quote>>
         \o JsonQuote(obj[1][2]) \o <<Quote>>
         \o (IF Len(obj) > 1 THEN <<",">> ELSE <<>>)
         \o JsonStringifyMembers(Tail(obj))

\* JSON.stringify(obj)
JsonStringify(obj) == <<"{">> \o JsonStringifyMembers(obj) \o <<"}">>

\* ------------------------------------------------------------------------
\* URLSearchParams: parsing and serialising application/x-www-form-urlencoded
\* ------------------------------------------------------------------------

\* Percent-encoding of one piece by the urlencoded serialiser.
UrlEncodePiece(c) ==
    CASE c = " " -> "+"
      [] c = "+" -> "%2B"
      [] c = "&" -> "%26"
      [] c = "=" -> "%3D"
      [] OTHER -> c

\* Decoding of one piece by the urlencoded parser.
UrlDecodePiece(c) ==
    CASE c = "+" -> " "
      [] c = "%2B" -> "+"
      [] c = "%26" -> "&"
      [] c = "%3D" -> "="
      [] OTHER -> c

UrlEncode(str) == [i \in DOMAIN str |-> UrlEncodePiece(str[i])]
UrlDecode(str) == [i \in DOMAIN str |-> UrlDecodePiece(str[i])]

\* The position of the first piece equal to c at or after pos, or
\* Len(s) + 1.
RECURSIVE IndexOfPiece(_, _, _)
IndexOfPiece(s, c, pos) ==
    IF pos > Len(s) \/ s[pos] = c
    THEN pos
    ELSE IndexOfPiece(s, c, pos + 1)

\* One `name=value` part: split at the first `=`, both sides decoded.
UrlPair(part) ==
    LET eq == IndexOfPiece(part, "=", 1)
    IN  <<UrlDecode(SubSeq(part, 1, eq - 1)),
          UrlDecode(SubSeq(part, eq + 1, Len(part)))>>

\* new URLSearchParams(s): the list of pairs, in order, repeated names
\* kept; empty parts are skipped.
RECURSIVE UrlSearchParamsParse(_)
UrlSearchParamsParse(s) ==
    IF s = <<>>
    THEN <<>>
    ELSE LET amp == IndexOfPiece(s, "&", 1)
             part == SubSeq(s, 1, amp - 1)
             rest == SubSeq(s, amp + 1, Len(s))
         IN  (IF part = <<>> THEN <<>> ELSE <<UrlPair(part)>>)
             \o UrlSearchParamsParse(rest)

\* new URLSearchParams(entries).toString()
RECURSIVE UrlSearchParamsToString(_)
UrlSearchParamsToString(entries) ==
    IF entries = <<>>
    THEN <<>>
    ELSE UrlEncode(entries[1][1]) \o <<"=">> \o UrlEncode(entries[1][2])
         \o (IF Len(entries) > 1 THEN <<"&">> ELSE <<>>)
         \o UrlSearchParamsToString(Tail(entries))

\* ------------------------------------------------------------------------
\* Body parsers
\* ------------------------------------------------------------------------

JsonBodyParser == <<"JsonBodyParser">>
UrlEncodedBodyParser == <<"UrlEncodedBodyParser">>

\* A parser object written by the caller: name is "json" for the name
\* application/json and "ld+json" for application/ld+json; its parse
\* answers {parser: id} and its encode the bytes of id.
CustomParser(name, id) == <<"custom", name, id>>

IsCustomParser(parser) == parser[1] = "custom"

\* BodyParserInterface.name
ParserName(parser) ==
    IF IsCustomParser(parser)
    THEN (IF parser[2] = "json"
          THEN <<"application", "/", "json">>
          ELSE <<"application", "/", "ld", "+", "json">>)
    ELSE IF parser = JsonBodyParser
    THEN <<"application", "/", "json">>
    ELSE <<"application", "/", "x-www-form-urlencoded">>

\* A parse whose failure yields an object describing the error.
JsonCatchDescribes(r) ==
    IF r.ok THEN r.entries ELSE << <<<<"error">>, <<"SyntaxError">>>> >>

\* JsonBodyParser.parse: the parsed object, {} when JSON.parse throws.
JsonCatch(r) == IF r.ok THEN r.entries ELSE <<>>

JsonBodyParserParse(data) == JsonCatch(JsonParse(TextDecode(data)))

\* JsonBodyParser.encode
JsonBodyParserEncode(data) == TextEncode(JsonStringify(data))

\* UrlEncodedBodyParser.parse
UrlEncodedBodyParserParse(data) ==
    MapFromEntries(UrlSearchParamsParse(TextDecode(data)))

\* UrlEncodedBodyParser.encode
UrlEncodedBodyParserEncode(data) == TextEncode(UrlSearchParamsToString(data))

\* parser.parse(data)
ParserParse(parser, data) ==
    IF IsCustomParser(parser)
    THEN << <<<<"parser">>, <<parser[3]>>>> >>
    ELSE IF parser = JsonBodyParser
    THEN JsonBodyParserParse(data)
    ELSE UrlEncodedBodyParserParse(data)

\* parser.encode(data)
ParserEncode(parser, data) ==
    IF IsCustomParser(parser)
    THEN TextEncode(<<parser[3]>>)
    ELSE IF parser = JsonBodyParser
    THEN JsonBodyParserEncode(data)
    ELSE UrlEncodedBodyParserEncode(data)

\* Pieces made of the characters [a-zA-Z0-9] only.
AlnumPieces == {"application", "text", "json", "html", "ld"}

\* Pieces made of the characters [a-zA-Z0-9\-_] only.
SubtypePieces == AlnumPieces \cup {"x-www-form-urlencoded"}

\* The contentType group when the expression has to match the whole
\* value and allows for no parameters.
ContentTypeOfWhole(contentType) ==
    IF /\ Len(contentType) = 3
       /\ contentType[1] \in AlnumPieces
       /\ contentType[2] = "/"
       /\ contentType[3] \in SubtypePieces
    THEN contentType
    ELSE <<"N/A">>

\* The contentType group of
\* /^(?<contentType>[a-zA-Z0-9]+\/[a-zA-Z0-9\-\_]+)(;.*)?/, or 'N/A'.
ContentTypeOf(contentType) ==
    IF /\ Len(contentType) >= 3
       /\ contentType[1] \in AlnumPieces
       /\ contentType[2] = "/"
       /\ contentType[3] \in SubtypePieces
    THEN SubSeq(contentType, 1, 3)
    ELSE <<"N/A">>

\* FetchInterceptor.getBodyParser, on the registry `parsers`.
GetBodyParser(parsers, contentType) ==
    MapGet(parsers, ContentTypeOf(contentType))

\* headers.get('content-type') || ''
ContentTypeName == <<"c","o","n","t","e","n","t","-","t","y","p","e">>

ContentTypeHeader(headers) ==
    IF MapHas(headers, ContentTypeName)
    THEN MapGet(headers, ContentTypeName)
    ELSE <<>>

\* ------------------------------------------------------------------------
\* InternalInvocationContext and InternalInvocationReturnValue
\* A URL is [origin, pathname, search]: the pathname as its segments, the
\* search as the pieces of the query string without the leading `?`.
\* ------------------------------------------------------------------------

\* new InternalInvocationContext(...): target is new URL(url).
NewContext(method, url, params, form, query, body, requestHeaders) ==
    [method |-> method, url |-> url, params |-> params, form |-> form,
     query |-> query, body |-> body, requestHeaders |-> requestHeaders,
     target |-> url]

\* new InternalInvocationReturnValue(...)
NewReturnValue(statusCode, statusText, responseHeaders, body, form) ==
    [statusCode |-> statusCode, statusText |-> statusText,
     responseHeaders |-> responseHeaders, body |-> body, form |-> form]

\* mapcmp comparing the two Map objects by reference: the callback's maps
\* are copies, so they never compare equal.
mapcmpByReference(src, dst) == FALSE

\* mapcmp comparing the entries in insertion order.
mapcmpInOrder(src, dst) == src = dst

\* mapcmp of both classes.
mapcmp(src, dst) ==
    /\ Len(src) = Len(dst)
    /\ \A x \in MapKeys(src) : MapGet(src, x) = MapGet(dst, x)

\* crypto.subtle.digest('SHA-256', body), taken to be free of collisions.
Digest(body) == [sha256 |-> body]

\* A comparison of the two buffers by identity: the callback's buffer is
\* a copy (slice) of the original one, so the two are never the same.
SameBuffer(body1, body2) == FALSE

\* hash1.every((v, i) => v === hash2[i]) of lines 100 and 138.
SameDigest(body1, body2) == Digest(body1) = Digest(body2)

\* compare as it was before the query became a map of its own: a change
\* of the query is not part of `modified`.
CompareContextWithoutQuery(this, target) ==
    LET modifiedUrl == target.url # this.url
        modifiedMethod == target.method # this.method
        modifiedHeaders == ~mapcmp(this.requestHeaders, target.requestHeaders)
        modifiedParams == ~mapcmp(this.params, target.params)
        modifiedQuery == ~mapcmp(this.query, target.query)
        modifiedForm == ~mapcmp(this.form, target.form)
        modifiedBody == ~SameDigest(this.body, target.body)
    IN  [modified |-> modifiedUrl \/ modifiedMethod \/ modifiedHeaders
                      \/ modifiedParams \/ modifiedForm \/ modifiedBody,
         modifiedParams |-> modifiedParams,
         modifiedForm |-> modifiedForm,
         modifiedQuery |-> modifiedQuery]

\* InternalInvocationContext.compare
CompareContext(this, target) ==
    LET modifiedUrl == target.url # this.url
        modifiedMethod == target.method # this.method
        modifiedHeaders == ~mapcmp(this.requestHeaders, target.requestHeaders)
        modifiedParams == ~mapcmp(this.params, target.params)
        modifiedQuery == ~mapcmp(this.query, target.query)
        modifiedForm == ~mapcmp(this.form, target.form)
        modifiedBody == ~SameDigest(this.body, target.body)
    IN  [modified |-> modifiedUrl \/ modifiedMethod \/ modifiedHeaders
                      \/ modifiedParams \/ modifiedForm \/ modifiedBody
                      \/ modifiedQuery,
         modifiedParams |-> modifiedParams,
         modifiedForm |-> modifiedForm,
         modifiedQuery |-> modifiedQuery]

\* InternalInvocationReturnValue.compare
CompareReturnValue(this, target) ==
    LET modifiedStatusCode == target.statusCode # this.statusCode
        modifiedStatusText == target.statusText # this.statusText
        modifiedHeaders == ~mapcmp(this.responseHeaders, target.responseHeaders)
        modifiedForm == ~mapcmp(this.form, target.form)
        modifiedBody == ~SameDigest(this.body, target.body)
    IN  [modified |-> modifiedStatusCode \/ modifiedStatusText
                      \/ modifiedHeaders \/ modifiedForm \/ modifiedBody,
         modifiedForm |-> modifiedForm]

\* InternalInvocationContext.copy: fresh maps and a fresh buffer with the
\* same content; the constructor derives target from url again.
CopyContext(this) ==
    NewContext(this.method, this.url, this.params, this.form, this.query,
               this.body, this.requestHeaders)

\* InternalInvocationReturnValue.copy
CopyReturnValue(this) ==
    NewReturnValue(this.statusCode, this.statusText, this.responseHeaders,
                   this.body, this.form)

HttpStatusText ==
    << <<100, "Continue">>, <<101, "Switching Protocols">>,
       <<102, "Processing">>, <<103, "Early Hints">>, <<200, "OK">>,
       <<201, "Created">>, <<202, "Accepted">>,
       <<203, "Non-Authoritative Information">>, <<204, "No Content">>,
       <<205, "Reset Content">>, <<206, "Partial Content">>,
       <<207, "Multi-Status">>, <<208, "Already Reported">>,
       <<226, "IM Used">>, <<300, "Multiple Choices">>,
       <<301, "Moved Permanently">>, <<302, "Found">>, <<303, "See Other">>,
       <<304, "Not Modified">>, <<305, "Use Proxy">>, <<306, "Switch Proxy">>,
       <<307, "Temporary Redirect">>, <<308, "Permanent Redirect">>,
       <<400, "Bad Request">>, <<401, "Unauthorized">>,
       <<402, "Payment Required">>, <<403, "Forbidden">>,
       <<404, "Not Found">>, <<405, "Method Not Allowed">>,
       <<406, "Not Acceptable">>,
       <<407, "Proxy Authentication Required">>, <<408, "Request Timeout">>,
       <<409, "Conflict">>, <<410, "Gone">>, <<411, "Length Required">>,
       <<412, "Precondition Failed">>, <<413, "Payload Too Large">>,
       <<414, "URI Too Long">>, <<415, "Unsupported Media Type">>,
       <<416, "Range Not Satisfiable">>, <<417, "Expectation Failed">>,
       <<418, "I'm a teapot">>, <<421, "Misdirected Request">>,
       <<422, "Unprocessable Entity">>, <<423, "Locked">>,
       <<424, "Failed Dependency">>, <<425, "Too Early">>,
       <<426, "Upgrade Required">>, <<428, "Precondition Required">>,
       <<429, "Too Many Requests">>,
       <<431, "Request Header Fields Too Large">>,
       <<451, "Unavailable For Legal Reasons">>,
       <<500, "Internal Server Error">>, <<501, "Not Implemented">>,
       <<502, "Bad Gateway">>, <<503, "Service Unavailable">>,
       <<504, "Gateway Timeout">>, <<505, "HTTP Version Not Supported">>,
       <<506, "Variant Also Negotiates">>, <<507, "Insufficient Storage">>,
       <<508, "Loop Detected">>, <<510, "Not Extended">>,
       <<511, "Network Authentication Required">> >>

\* ------------------------------------------------------------------------
\* User callbacks.  What a callback does to `this` is a program: a
\* sequence of statements [op, name, value]; "throw" raises.
\* ------------------------------------------------------------------------

\* The header map of an invocation context or return value.
HeadersField(this) ==
    IF "requestHeaders" \in DOMAIN this
    THEN "requestHeaders"
    ELSE "responseHeaders"

\* One statement of a callback applied to `this`.
ApplyStatement(this, st) ==
    CASE st.op = "method"       -> [this EXCEPT !.method = st.value]
      [] st.op = "url"          -> [this EXCEPT !.url = st.value]
      [] st.op = "statusCode"   -> [this EXCEPT !.statusCode = st.value]
      [] st.op = "statusText"   -> [this EXCEPT !.statusText = st.value]
      [] st.op = "body"         -> [this EXCEPT !.body = st.value]
      [] st.op = "headers.set"  ->
            [this EXCEPT ![HeadersField(this)] = MapSet(@, st.name, st.value)]
      [] st.op = "headers.delete" ->
            [this EXCEPT ![HeadersField(this)] = MapDelete(@, st.name)]
      [] st.op = "params.set"   ->
            [this EXCEPT !.params = MapSet(@, st.name, st.value)]
      [] st.op = "params.delete" ->
            [this EXCEPT !.params = MapDelete(@, st.name)]
      [] st.op = "query.set"    ->
            [this EXCEPT !.query = MapSet(@, st.name, st.value)]
      [] st.op = "query.delete" ->
            [this EXCEPT !.query = MapDelete(@, st.name)]
      [] st.op = "form.set"     ->
            [this EXCEPT !.form = MapSet(@, st.name, st.value)]
      [] st.op = "form.delete"  ->
            [this EXCEPT !.form = MapDelete(@, st.name)]
      [] OTHER -> this

\* The callback runs its statements in order on `this`.
RECURSIVE Invoke(_, _)
Invoke(this, program) ==
    IF program = <<>>
    THEN this
    ELSE Invoke(ApplyStatement(this, program[1]), Tail(program))

\* A callback whose exception is swallowed.
ThrowsNever(program) == FALSE

\* The callback raises an exception.
Throws(program) == \E i \in DOMAIN program : program[i].op = "throw"

\* ------------------------------------------------------------------------
\* State
\* ------------------------------------------------------------------------

VARIABLES
    listeners,       \* InternalInvocationListener.listeners: <<method, origin>>
                     \* |-> the entries of the inner Map in insertion order
    listenersCache,  \* FetchInterceptor.listenersCache: inner Map (by its
                     \* <<method, origin>>) |-> Array.from(p.entries())
    contextCache,    \* FetchInterceptor.contextCache: the request ids that
                     \* have a record (the code never reads the records)
    bodyParser,      \* FetchInterceptor.bodyParser: name |-> parser
    last,            \* what the latest call did: the transport calls and
                     \* callbacks it made, in order
    stage,           \* the browser's side of each request id
    transport,       \* the transport's side of enable(): the callbacks
                     \* subscribed to Fetch.requestPaused, the Fetch.enable
                     \* commands received, and the deliveries of the
                     \* paused request still owed to subscribers
    inflight         \* request id |-> the invocation of requestPaused that
                     \* is suspended on an await for it, if any

vars ==
    <<listeners, listenersCache, contextCache, bodyParser, last, stage,
      transport, inflight>>

\* ------------------------------------------------------------------------
\* InternalInvocationListener
\* ------------------------------------------------------------------------

\* get looking the method up and taking an inner Map of that method
\* whatever its origin.
ListenersGetAnyOrigin(ls, method, origin) ==
    IF \E k \in DOMAIN ls : k[1] = method
    THEN ls[CHOOSE k \in DOMAIN ls : k[1] = method]
    ELSE <<>>

\* InternalInvocationListener.get: the inner Map, <<>> for void.
ListenersGet(ls, method, origin) ==
    IF <<method, origin>> \in DOMAIN ls
    THEN ls[<<method, origin>>]
    ELSE <<>>

\* The number of entries of the route table.
RECURSIVE SumLen(_, _)
SumLen(ls, keys) ==
    IF keys = {}
    THEN 0
    ELSE LET k == CHOOSE x \in keys : TRUE
         IN  Len(ls[k]) + SumLen(ls, keys \ {k})

RouteCount(ls) == SumLen(ls, DOMAIN ls)

\* InternalInvocationListener.set: the entry is keyed by the match
\* function, a fresh closure for every registration, so it is appended.
ListenersSet(ls, method, origin, pattern, matchFn, callbacks) ==
    LET key == <<method, origin>>
        entry == [matchFn |-> matchFn, pattern |-> pattern,
                  callbacks |-> callbacks]
    IN  [k \in DOMAIN ls \cup {key} |->
            IF k = key
            THEN Append(ListenersGet(ls, method, origin), entry)
            ELSE ls[k]]

\* ------------------------------------------------------------------------
\* FetchInterceptor.requestPaused
\* ------------------------------------------------------------------------

\* A call on the transport, as recorded in last.trace.  A callback
\* invocation is recorded there as [kind, route, this, args, after]: the
\* callback's name, the identity of the matched route, `this` and the
\* arguments as the callback receives them, and `this` when it returns.
Call(api, args) == [kind |-> api, args |-> args]

\* Object.entries(reqHdrs).map(([name, value]) => [name.toLowerCase(), value])
\* and the same on the response header array.
LowerCaseNames(hdrs) ==
    [i \in DOMAIN hdrs |-> <<ToLowerCase(hdrs[i][1]), hdrs[i][2]>>]

\* A renaming that adds the lower-case entry at the end of the list, next
\* to an entry of that name the list may hold already.
RenameAppended(headers, name, value) ==
    Append(MapDelete(headers, name), <<ToLowerCase(name), value>>)

\* (headers.delete(name), headers.set(name.toLowerCase(), value)): set
\* overwrites the value of an entry the map holds under the lower-case name.
RenameLowerCase(headers, name, value) ==
    MapSet(MapDelete(headers, name), ToLowerCase(name), value)

\* Array.from(headers).forEach(([name, value]) => /[A-Z]/.test(name) &&
\*   (headers.delete(name), headers.set(name.toLowerCase(), value)))
RECURSIVE FormatHeadersFrom(_, _, _)
FormatHeadersFrom(snapshot, i, headers) ==
    IF i > Len(snapshot)
    THEN headers
    ELSE LET name == snapshot[i][1]
             value == snapshot[i][2]
         IN  FormatHeadersFrom(snapshot, i + 1,
                IF HasUpperCase(name)
                THEN RenameLowerCase(headers, name, value)
                ELSE headers)

\* The post-callback step without the header formatting.
FormatHeadersSkipped(headers) == headers

FormatHeaders(headers) == FormatHeadersFrom(headers, 1, headers)

\* find taking the first entry without calling its matcher.
FindListenerUnmatched(pp, pathname) == IF pp # <<>> THEN 1 ELSE 0

\* pp.find(([m, c]) => m(pathname)): the index of the first entry whose
\* matcher accepts the pathname, 0 when there is none.
FindListener(pp, pathname) ==
    IF \E i \in DOMAIN pp : MatchFn(pp[i].matchFn.template, pathname)
    THEN CHOOSE i \in DOMAIN pp :
            /\ MatchFn(pp[i].matchFn.template, pathname)
            /\ \A j \in 1..(i - 1) : ~MatchFn(pp[j].matchFn.template, pathname)
    ELSE 0

\* The listenersCache lookup of line 342: the cached array of the inner
\* Map p, filled from p on the first lookup.
CachedListeners(cache, key, p) ==
    IF key \in DOMAIN cache THEN cache[key] ELSE p

CacheAfterLookup(cache, key, p) ==
    IF key \in DOMAIN cache
    THEN cache
    ELSE [k \in DOMAIN cache \cup {key} |-> IF k = key THEN p ELSE cache[k]]

\* The body choice that never looks at the form.
OutgoingBodyRawFirst(modifiedForm, postparser, ret, body) ==
    IF Len(ret.body) # 0 THEN ret.body ELSE body

\* The body sent when the callback modified something.
OutgoingBody(modifiedForm, postparser, ret, body) ==
    IF modifiedForm /\ postparser # Undefined
    THEN ParserEncode(postparser, ObjectFromEntries(ret.form))
    ELSE IF Len(ret.body) # 0 THEN ret.body ELSE body

\* The url that never regenerates the path from the parameters.
OutgoingUrlWithoutParams(cmp, ret, pattern) ==
    IF cmp.modifiedQuery
    THEN [ret.target EXCEPT !.search = UrlSearchParamsToString(ret.query)]
    ELSE ret.url

\* The url that never reserialises the query.
OutgoingUrlWithoutQuery(cmp, ret, pattern) ==
    IF cmp.modifiedParams
    THEN [ret.target EXCEPT !.pathname = CompileFn(pattern, ret.params)]
    ELSE ret.url

\* The url taken from the callback's assignment whatever else changed.
OutgoingUrlAssigned(cmp, ret, pattern) == ret.url

\* The url of the continueRequest of a modified request.
OutgoingUrl(cmp, ret, pattern) ==
    IF cmp.modifiedParams \/ cmp.modifiedQuery
    THEN LET t1 == IF cmp.modifiedParams
                   THEN [ret.target EXCEPT
                            !.pathname = CompileFn(pattern, ret.params)]
                   ELSE ret.target
             t2 == IF cmp.modifiedQuery
                   THEN [t1 EXCEPT
                            !.search = UrlSearchParamsToString(ret.query)]
                   ELSE t1
         IN  t2
    ELSE ret.url

\* The Fetch.continueRequest request of step 3 of the request phase: only
\* the id and interceptResponse when nothing was modified, every field
\* otherwise.
ContinueRequestRequest(requestId, cmp, ret, pattern, postparser, body) ==
    IF cmp.modified
    THEN [requestId |-> requestId, interceptResponse |-> TRUE,
          url |-> OutgoingUrl(cmp, ret, pattern),
          method |-> ret.method,
          headers |-> ret.requestHeaders,
          postData |-> ToBase64(OutgoingBody(cmp.modifiedForm, postparser,
                                             ret, body))]
    ELSE [requestId |-> requestId, interceptResponse |-> TRUE]

\* The Fetch.fulfillRequest request of step 3 of the response phase.
FulfillRequestRequest(requestId, responseStatusCode, base64Encoded, cmp, ret, postparser, body) ==
    IF cmp.modified
    THEN [requestId |-> requestId,
          responseCode |-> ret.statusCode,
          responsePhrase |-> ret.statusText,
          responseHeaders |-> ret.responseHeaders,
          body |-> LET chosen == OutgoingBody(cmp.modifiedForm, postparser,
                                              ret, body)
                   IN  IF base64Encoded
                       THEN ToBase64(chosen)
                       ELSE PlainString(TextDecode(chosen))]
    ELSE [requestId |-> requestId, responseCode |-> responseStatusCode]

\* The result of a dispatch that made the calls of `trace`.
Outcome(trace, threw, cc, lc) ==
    [trace |-> trace, threw |-> threw, contextCache |-> cc,
     listenersCache |-> lc]

\* hasPostData = false and postData = '' of the destructuring of line 327.
HasPostData(request) ==
    IF "hasPostData" \in DOMAIN request THEN request.hasPostData ELSE FALSE

PostData(request) ==
    IF "postData" \in DOMAIN request THEN request.postData ELSE <<>>

\* (preparser && hasPostData && preparser.parse(body)) || {} as a Map.
ParsedBody(preparser, hasPostData, body) ==
    IF preparser # Undefined /\ hasPostData
    THEN MapFromEntries(ParserParse(preparser, body))
    ELSE <<>>

\* The context of line 367.
RequestContext(e, entry, headers, body) ==
    NewContext(e.request.method, e.request.url,
               MapFromEntries(MatchParams(entry.matchFn.template,
                                          e.request.url.pathname)),
               ParsedBody(GetBodyParser(bodyParser, ContentTypeHeader(headers)),
                          HasPostData(e.request), body),
               MapFromEntries(UrlSearchParamsParse(e.request.url.search)),
               body, headers)

\* The snapshot when the callback is bound to the context itself: it holds
\* whatever the callback did.
SnapshotShared(context, ret) == ret

\* The context built from the pause event, as it is after the callback
\* ran: the callback was bound to caller = context.copy() (lines 374 and
\* 435), whose maps and buffer are new objects, so it is as it was built.
Snapshot(context, ret) == context

\* Step 3 of the request phase, for the context, the record of the callback
\* invocation, the callback's context ret after the header formatting, and
\* the result cmp of context.compare(ret).
RequestStep3(e, entry, lc, body, invocation, ret, cmp) ==
    IF cmp.modified /\ cmp.modifiedParams
       /\ CompileThrows(entry.pattern, ret.params)
    THEN Outcome(<<invocation>>, TRUE, contextCache \cup {e.requestId}, lc)
    ELSE Outcome(<<invocation,
                   Call("continueRequest",
                        ContinueRequestRequest(
                            e.requestId, cmp, ret, entry.pattern,
                            GetBodyParser(bodyParser,
                                ContentTypeHeader(ret.requestHeaders)),
                            body))>>,
                 FALSE, contextCache \cup {e.requestId}, lc)

\* Step 2 of the request phase: the record is stored, the header names
\* of the callback's context are formatted, and the two are compared.
RequestStep2(e, entry, lc, context, invocation, ret) ==
    RequestStep3(e, entry, lc, context.body, invocation, ret,
                 CompareContext(Snapshot(context, ret), ret))

\* Step 1 of the request phase: the callback runs on caller, a copy of the
\* context.
RequestStep1(e, entry, program, lc, context, caller, returned) ==
    IF Throws(program)
    THEN Outcome(<<[kind |-> "onRequest", route |-> entry.matchFn.id,
                    this |-> caller, args |-> <<caller.query, caller.form>>,
                    after |-> returned, program |-> program]>>,
                 TRUE, contextCache, lc)
    ELSE RequestStep2(e, entry, lc, context,
                      [kind |-> "onRequest", route |-> entry.matchFn.id,
                       this |-> caller, args |-> <<caller.query, caller.form>>,
                       after |-> returned, program |-> program],
                      [returned EXCEPT !.requestHeaders = FormatHeaders(@)])

RequestInvoke(e, entry, program, lc, context) ==
    RequestStep1(e, entry, program, lc, context, CopyContext(context),
                 Invoke(CopyContext(context), program))

\* A request phase that stores a record for every matched event, whether or
\* not the route has an onRequest callback.
RequestPhaseRecordsUnhandled(e, entry, program, lc) ==
    Outcome(<<Call("continueRequest", [requestId |-> e.requestId])>>,
            FALSE, contextCache \cup {e.requestId}, lc)

\* The request phase once a listener matched (lines 351-404).
RequestPhase(e, entry, program, lc) ==
    IF "onRequest" \notin entry.callbacks
    THEN Outcome(<<Call("continueRequest", [requestId |-> e.requestId])>>,
                 FALSE, contextCache, lc)
    ELSE RequestInvoke(e, entry, program, lc,
            RequestContext(e, entry,
                MapFromEntries(LowerCaseNames(e.request.headers)),
                TextEncode(IF HasPostData(e.request)
                           THEN PostData(e.request) ELSE <<>>)))

\* isredirect never holding.
IsRedirectNever(e) == FALSE

\* isredirect of line 331; Fetch.getResponseBody is not called for a
\* redirect (line 414).
IsRedirect(e) == e.responseStatusCode >= 300 /\ e.responseStatusCode < 400

Fetched(e, reply) ==
    IF IsRedirect(e)
    THEN [base64Encoded |-> TRUE, body |-> PlainString(<<>>)]
    ELSE reply

\* A body fetch made only for the ids that have a record in contextCache.
FetchCallsWhenPending(e) ==
    IF e.requestId \in contextCache
    THEN <<Call("getResponseBody", [requestId |-> e.requestId])>>
    ELSE <<>>

FetchCalls(e) ==
    IF IsRedirect(e)
    THEN <<>>
    ELSE <<Call("getResponseBody", [requestId |-> e.requestId])>>

\* The body of line 423.
ResponseBody(fetched) ==
    TextEncode(IF fetched.base64Encoded
               THEN TextDecode(FromBase64(fetched.body))
               ELSE fetched.body.data)

\* The status text of line 427.
StatusText(responseStatusCode, responseStatusText) ==
    IF responseStatusText = ""
    THEN (IF MapHas(HttpStatusText, responseStatusCode)
          THEN MapGet(HttpStatusText, responseStatusCode)
          ELSE "UNKNOWN")
    ELSE responseStatusText

\* The context of line 429.
ResponseContext(e, headers, body) ==
    NewReturnValue(e.responseStatusCode,
                   StatusText(e.responseStatusCode, e.responseStatusText),
                   headers, body,
                   ParsedBody(GetBodyParser(bodyParser,
                                            ContentTypeHeader(headers)),
                              HasPostData(e.request), body))

\* Steps 2 and 3 of the response phase: the record is deleted, the header
\* names of the callback's value are formatted, and the fulfillRequest is
\* built from the comparison.
ResponseStep2(e, lc, base64Encoded, context, invocation, ret) ==
    Outcome(FetchCalls(e) \o
            <<invocation,
              Call("fulfillRequest",
                   FulfillRequestRequest(
                       e.requestId, e.responseStatusCode, base64Encoded,
                       CompareReturnValue(Snapshot(context, ret), ret), ret,
                       GetBodyParser(bodyParser,
                                     ContentTypeHeader(ret.responseHeaders)),
                       context.body))>>,
            FALSE, contextCache \ {e.requestId}, lc)

\* Step 1 of the response phase: the callback runs on caller, a copy of
\* the context.
ResponseStep1(e, entry, program, lc, base64Encoded, context, caller, returned) ==
    IF Throws(program)
    THEN Outcome(FetchCalls(e) \o
                 <<[kind |-> "onResponse", route |-> entry.matchFn.id,
                    this |-> caller, args |-> <<caller.form>>,
                    after |-> returned, program |-> program]>>,
                 TRUE, contextCache, lc)
    ELSE ResponseStep2(e, lc, base64Encoded, context,
                       [kind |-> "onResponse", route |-> entry.matchFn.id,
                        this |-> caller, args |-> <<caller.form>>,
                        after |-> returned, program |-> program],
                       [returned EXCEPT !.responseHeaders = FormatHeaders(@)])

ResponseInvoke(e, entry, program, lc, base64Encoded, context) ==
    ResponseStep1(e, entry, program, lc, base64Encoded, context,
                  CopyReturnValue(context),
                  Invoke(CopyReturnValue(context), program))

\* The transport rejects the calls of one kind made during the dispatch:
\* "getResponseBody", or "command" for the resume command.
Rejecting(reply, api) == "rejects" \in DOMAIN reply /\ reply.rejects = api

\* A rejection of getResponseBody that the dispatch would swallow.
GetResponseBodyRejectsNever(e, reply) == FALSE

\* await this.fetch.getResponseBody({ requestId }) of line 414 rejects: the
\* call is made (the event is no redirect) and the transport rejects it.
GetResponseBodyRejects(e, reply) ==
    ~IsRedirect(e) /\ Rejecting(reply, "getResponseBody")

\* return await this.fetch.continueRequest / continueResponse /
\* fulfillRequest: a dispatch that issued its command fails when the
\* transport rejects the command.
CommandAnswer(reply, out) ==
    IF Rejecting(reply, "command") /\ ~out.threw
    THEN [out EXCEPT !.threw = TRUE]
    ELSE out

\* The response phase once a listener matched (lines 406-465).  `reply` is
\* what Fetch.getResponseBody answers when it is called.
\* A resumption of a response without onResponse that fulfils the request
\* with the status code of the event.
ContinueUnhandledFulfills(e) ==
    <<Call("fulfillRequest", [requestId |-> e.requestId,
                              responseCode |-> e.responseStatusCode])>>

\* Line 432: the command of a response-phase pause whose route has no
\* onResponse callback.
ContinueUnhandled(e) ==
    <<Call("continueResponse", [requestId |-> e.requestId])>>

ResponsePhase(e, entry, program, reply, lc) ==
    IF GetResponseBodyRejects(e, reply)
    THEN Outcome(FetchCalls(e), TRUE, contextCache, lc)
    ELSE IF "onResponse" \notin entry.callbacks
    THEN Outcome(FetchCalls(e) \o ContinueUnhandled(e),
                 FALSE, contextCache, lc)
    ELSE ResponseInvoke(e, entry, program, lc,
            Fetched(e, reply).base64Encoded,
            ResponseContext(e,
                MapFromEntries(LowerCaseNames(
                    IF "responseHeaders" \in DOMAIN e
                    THEN e.responseHeaders ELSE <<>>)),
                ResponseBody(Fetched(e, reply))))

\* A classification that takes every event for a request-phase one.
IsReqAlways(e) == TRUE

\* isreq of line 330: the event lacks a status code or a status text.
IsReq(e) ==
    \/ "responseStatusCode" \notin DOMAIN e
    \/ "responseStatusText" \notin DOMAIN e

\* FetchInterceptor.requestPaused(params): what the dispatch of the pause
\* event e does, when the callback it invokes (if any) runs `program` and
\* Fetch.getResponseBody (if called) answers `reply`.
RequestPaused(e, program, reply) ==
    LET request == e.request
        method == request.method
        origin == request.url.origin
        pathname == request.url.pathname
        crq == [requestId |-> e.requestId]
        passThrough == <<Call("continueRequest", crq)>>
        p == ListenersGet(listeners, method, origin)
        key == <<method, origin>>
        pp == CachedListeners(listenersCache, key, p)
        lc == CacheAfterLookup(listenersCache, key, p)
        found == FindListener(pp, pathname)
    IN  CommandAnswer(reply,
            IF ~IsInvocationMethod(method)
            THEN Outcome(passThrough, FALSE, contextCache, listenersCache)
            ELSE IF p = <<>>
            THEN Outcome(passThrough, FALSE, contextCache, listenersCache)
            ELSE IF found = 0
            THEN Outcome(passThrough, FALSE, contextCache, lc)
            ELSE IF IsReq(e)
            THEN RequestPhase(e, pp[found], program, lc)
            ELSE ResponsePhase(e, pp[found], program, reply, lc))

\* ------------------------------------------------------------------------
\* Inputs explored by the model
\* ------------------------------------------------------------------------

RequestIds == {"r1", "r2"}

\* No invocation of requestPaused is suspended.
NoFlight ==
    [pc |-> "none", event |-> <<>>, program |-> <<>>, reply |-> <<>>,
     issued |-> <<>>, threw |-> FALSE, plan |-> <<>>, planThrew |-> FALSE,
     alone |-> <<>>]

NoFlights == [id \in RequestIds |-> NoFlight]

OriginA == "http://a"
OriginB == "http://b"

\* Path templates /test/:id and /test/9, and the pathnames /test/9 and
\* /test/7.
TemplateId == << <<"lit", <<"test">>>>, <<"param", <<"id">>>> >>
TemplateNine == << <<"lit", <<"test">>>>, <<"lit", <<"9">>>> >>
PathNine == << <<"test">>, <<"9">> >>
PathSeven == << <<"test">>, <<"7">> >>

Url(origin, pathname, search) ==
    [origin |-> origin, pathname |-> pathname, search |-> search]

\* A pattern string: new URL(pattern) yields its origin and pathname, and
\* throws when `valid` is false.
Pattern(origin, template) ==
    [valid |-> TRUE, origin |-> origin, pathname |-> template]

MalformedPattern == [valid |-> FALSE]

Both == {"onRequest", "onResponse"}

\* The registration calls handle(method, pattern, callbacks) explored; the
\* callbacks object is given by the names of the functions it holds.
Registrations ==
    << [method |-> "GET", pattern |-> Pattern(OriginA, TemplateId),
        callbacks |-> Both],
       [method |-> "GET", pattern |-> Pattern(OriginA, TemplateId),
        callbacks |-> {"onRequest"}],
       [method |-> "GET", pattern |-> Pattern(OriginA, TemplateId),
        callbacks |-> {"onResponse"}],
       [method |-> "GET", pattern |-> Pattern(OriginA, TemplateId),
        callbacks |-> {}],
       [method |-> "GET", pattern |-> Pattern(OriginA, TemplateNine),
        callbacks |-> Both],
       [method |-> "POST", pattern |-> Pattern(OriginA, TemplateId),
        callbacks |-> Both],
       [method |-> "GET", pattern |-> Pattern(OriginB, TemplateId),
        callbacks |-> Both],
       [method |-> "BAD", pattern |-> Pattern(OriginA, TemplateId),
        callbacks |-> Both],
       [method |-> "GET", pattern |-> MalformedPattern,
        callbacks |-> Both] >>

\* Header names, character by character.
NameFoo == <<"f","o","o">>
NameFoO == <<"F","o","O">>
NameNaMe == <<"N","a","M","e">>
NameContentType == <<"C","o","n","t","e","n","t","-","T","y","p","e">>

ApplicationJson == <<"application", "/", "json">>
\* application/json; charset=utf-8 and text/html
ApplicationJsonCharset == ApplicationJson \o <<";", " charset=utf-8">>
TextHtml == <<"text", "/", "html">>
JsonFooBar == <<"{", Quote, "foo", Quote, ":", Quote, "bar", Quote, "}">>
HtmlHello == <<"<h1>", "Hello world!", "</h1>">>
\* The malformed JSON text {bad
JsonBad == <<"{", "bad">>
HtmlInjected == <<"<h1>", "Injected!", "</h1>">>

\* A request-phase pause event; post is <<>> or <<postData>>.
RequestEvent(requestId, method, url, headers, post) ==
    [requestId |-> requestId,
     request |-> IF post = <<>>
                 THEN [method |-> method, url |-> url, headers |-> headers]
                 ELSE [method |-> method, url |-> url, headers |-> headers,
                       hasPostData |-> TRUE, postData |-> post[1]]]

\* A response-phase pause event.
ResponseEvent(requestId, method, url, headers, post, code, text, rspHdrs) ==
    [requestId |-> requestId,
     request |-> RequestEvent(requestId, method, url, headers, post).request,
     responseStatusCode |-> code,
     responseStatusText |-> text,
     responseHeaders |-> rspHdrs]

\* A callback statement.
St(op, name, value) == [op |-> op, name |-> name, value |-> value]

NoReply == [base64Encoded |-> FALSE, body |-> PlainString(<<>>)]

\* What a request callback may do.
RequestPrograms ==
    << <<>>,
       <<St("method", <<>>, "POST")>>,
       <<St("url", <<>>, Url(OriginA, << <<"foo">> >>, <<>>))>>,
       <<St("headers.set", NameFoO, <<"bar">>)>>,
       <<St("headers.set", NameFoo, <<"baz">>)>>,
       <<St("headers.delete", NameFoo, <<>>)>>,
       <<St("params.set", <<"id">>, <<"12345">>)>>,
       <<St("params.delete", <<"id">>, <<>>)>>,
       <<St("query.set", <<"k">>, <<"w">>)>>,
       <<St("query.delete", <<"k">>, <<>>)>>,
       <<St("form.set", <<"foo">>, <<"baz">>)>>,
       <<St("body", <<>>, HtmlInjected)>>,
       <<St("throw", <<>>, <<>>)>>,
       <<St("form.set", <<"foo">>, <<"baz">>),
         St("body", <<>>, HtmlInjected)>>,
       <<St("body", <<>>, <<>>)>>,
       <<St("headers.set", ContentTypeName, ApplicationJson),
         St("form.set", <<"foo">>, <<"baz">>)>>,
       <<St("query.set", <<"j">>, <<"w">>)>>,
       <<St("url", <<>>, Url(OriginA, << <<"foo">> >>, <<>>)),
         St("query.set", <<"j">>, <<"w">>)>>,
       <<St("url", <<>>, Url(OriginA, << <<"foo">> >>, <<>>)),
         St("params.set", <<"id">>, <<"12345">>)>>,
       <<St("body", <<>>, JsonFooBar)>>,
       <<St("headers.set", NameFoO, <<"baz">>)>> >>

\* What a response callback may do.
ResponsePrograms ==
    << <<>>,
       <<St("statusCode", <<>>, 400)>>,
       <<St("statusText", <<>>, "Not Found")>>,
       <<St("headers.set", NameNaMe, <<"alice">>)>>,
       <<St("headers.set", NameFoo, <<"baz">>)>>,
       <<St("headers.delete", NameFoo, <<>>)>>,
       <<St("form.set", <<"foo">>, <<"baz">>)>>,
       <<St("body", <<>>, HtmlInjected)>>,
       <<St("throw", <<>>, <<>>)>>,
       <<St("form.set", <<"foo">>, <<"baz">>),
         St("body", <<>>, HtmlInjected)>>,
       <<St("body", <<>>, <<>>)>>,
       <<St("headers.set", ContentTypeName, ApplicationJson),
         St("form.set", <<"foo">>, <<"baz">>)>>,
       <<St("body", <<>>, JsonFooBar)>>,
       <<St("headers.set", NameFoO, <<"baz">>)>>,
       <<St("headers.set", NameFoO, <<"bar">>)>> >>

\* Request headers and posted data delivered by the transport.
RequestContents ==
    << [headers |-> <<>>, post |-> <<>>],
       [headers |-> << <<NameFoO, <<"bar">>>> >>, post |-> <<>>],
       [headers |-> << <<NameContentType, ApplicationJson>> >>,
        post |-> <<JsonFooBar>>],
       [headers |-> << <<NameContentType, ApplicationJson>> >>,
        post |-> <<JsonBad>>],
       [headers |-> << <<NameContentType, ApplicationJsonCharset>> >>,
        post |-> <<JsonFooBar>>],
       [headers |-> << <<NameContentType, TextHtml>> >>,
        post |-> <<JsonFooBar>>] >>

\* Status, response headers and body delivered by the transport.
ResponseContents ==
    << [code |-> 200, text |-> "OK",
        headers |-> << <<NameFoO, <<"bar">>>>,
                       <<NameContentType, ApplicationJson>> >>,
        post |-> <<>>,
        reply |-> [base64Encoded |-> TRUE, body |-> ToBase64(JsonFooBar)]],
       [code |-> 200, text |-> "OK",
        headers |-> << <<NameContentType, ApplicationJson>> >>,
        post |-> <<JsonFooBar>>,
        reply |-> [base64Encoded |-> TRUE, body |-> ToBase64(JsonFooBar)]],
       [code |-> 404, text |-> "",
        headers |-> <<>>,
        post |-> <<>>,
        reply |-> [base64Encoded |-> FALSE, body |-> PlainString(HtmlHello)]],
       [code |-> 302, text |-> "Found",
        headers |-> << <<NameFoo, <<"bar">>>> >>,
        post |-> <<>>,
        reply |-> [base64Encoded |-> FALSE, body |-> PlainString(HtmlHello)]],
       [code |-> 200, text |-> "OK",
        headers |-> << <<NameContentType, ApplicationJson>> >>,
        post |-> <<JsonFooBar>>,
        reply |-> [base64Encoded |-> TRUE, body |-> ToBase64(JsonBad)]] >>

\* Path template /all and pathname /all, registered through any().
TemplateAll == << <<"lit", <<"all">>>> >>
PathAll == << <<"all">> >>

\* The calls any(pattern, callbacks) explored.
AnyRegistrations ==
    << [pattern |-> Pattern(OriginA, TemplateAll), callbacks |-> Both],
       [pattern |-> MalformedPattern, callbacks |-> Both] >>

SearchKV == <<"k", "=", "v">>

RoutingMethods == {"GET", "POST", "BAD"}
RoutingOrigins == {OriginA, OriginB}
RoutingPaths == {PathNine, PathSeven}

\* ------------------------------------------------------------------------
\* Actions
\* ------------------------------------------------------------------------

Idle == [op |-> "idle"]

\* The browser's view of a request id: where the request is (new; request:
\* paused before being sent; headers: sent with response interception
\* asked; response: paused with the response; done: the page has the
\* response; blocked: paused and never resumed), whether the request
\* matched a route that registers onResponse, and how many times
\* onResponse ran for it.
NewStage == [at |-> "new", expect |-> FALSE, responses |-> 0]

\* The transport before enable(): no subscriber, no command received, not
\* intercepting.  startedWith is the number of subscribers when
\* interception started, owed the subscribers the paused request is still
\* to be delivered to.
NewTransport ==
    [subscribers |-> 0, enables |-> 0, intercepting |-> FALSE,
     startedWith |-> 0, owed |-> 0]

\* new FetchInterceptor(fetch): empty tables, the two built-in parsers.
RegisterBodyParserKeepsFirst(parsers, parser) ==
    IF MapHas(parsers, ParserName(parser))
    THEN parsers
    ELSE MapSet(parsers, ParserName(parser), parser)

RegisterBodyParser(parsers, parser) ==
    MapSet(parsers, ParserName(parser), parser)

\* parsers.forEach(x => this.bodyParser.set(x.name, x))
RECURSIVE RegisterAll(_, _)
RegisterAll(parsers, list) ==
    IF list = <<>>
    THEN parsers
    ELSE RegisterAll(RegisterBodyParser(parsers, list[1]), Tail(list))

Init ==
    /\ listeners = <<>>
    /\ listenersCache = <<>>
    /\ contextCache = {}
    /\ bodyParser = RegisterBodyParser(
                        RegisterBodyParser(<<>>, JsonBodyParser),
                        UrlEncodedBodyParser)
    /\ last = Idle
    /\ stage = [id \in RequestIds |-> NewStage]
    /\ transport = NewTransport
    /\ inflight = NoFlights

\* handle without the method check of line 317.
HandleThrowsOnPattern(method, pattern) == ~pattern.valid

\* FetchInterceptor.handle(method, pattern, callbacks) throws: new URL
\* rejects the pattern (line 315) or the method is not supported (line 317).
HandleThrows(method, pattern) ==
    ~pattern.valid \/ ~IsInvocationMethod(method)

Handle(r) ==
    /\ last = Idle
    /\ RouteCount(listeners) < MaxRoutes
    /\ IF HandleThrows(r.method, r.pattern)
       THEN /\ last' = [op |-> "handle", threw |-> TRUE, call |-> r]
            /\ UNCHANGED listeners
       ELSE /\ listeners' =
                  ListenersSet(listeners, r.method, r.pattern.origin,
                               r.pattern.pathname,
                               [id |-> RouteCount(listeners) + 1,
                                template |-> r.pattern.pathname],
                               r.callbacks)
            /\ last' = [op |-> "handle", threw |-> FALSE, call |-> r]
    /\ UNCHANGED <<listenersCache, contextCache, bodyParser, stage, transport,
                   inflight>>

\* AllInvocationMethods.forEach(x => this.handle(x, pattern, callbacks)),
\* from the i-th method on; every handle call compiles its own matcher.
RECURSIVE AnyFrom(_, _, _, _)
AnyFrom(ls, i, pattern, callbacks) ==
    IF i > Len(AllInvocationMethods)
    THEN ls
    ELSE AnyFrom(ListenersSet(ls, AllInvocationMethods[i], pattern.origin,
                              pattern.pathname,
                              [id |-> RouteCount(ls) + 1,
                               template |-> pattern.pathname],
                              callbacks),
                 i + 1, pattern, callbacks)

\* FetchInterceptor.any(pattern, callbacks): the first handle call throws on
\* a malformed pattern, before anything is registered.
any(r) ==
    /\ last = Idle
    /\ RouteCount(listeners) <= MaxRoutesBeforeAny
    /\ IF HandleThrows(AllInvocationMethods[1], r.pattern)
       THEN /\ last' = [op |-> "any", threw |-> TRUE, call |-> r]
            /\ UNCHANGED listeners
       ELSE /\ listeners' = AnyFrom(listeners, 1, r.pattern, r.callbacks)
            /\ last' = [op |-> "any", threw |-> FALSE, call |-> r]
    /\ UNCHANGED <<listenersCache, contextCache, bodyParser, stage, transport,
                   inflight>>

\* A dispatch that forgets the routes once it has looked one up.
RoutesForgotten(ls, e) == <<>>

\* The route table after the dispatch of e: lines 341-346 only read it
\* (listeners.get, p.entries(), pp.find), and nothing else touches it.
RoutesAfterDispatch(ls, e) == ls

\* The dispatch of a pause event runs to its end, with the result out;
\* reply is what Fetch.getResponseBody answers for the event.  The
\* observation notes whether the id had a record in contextCache when the
\* event arrived.
Dispatched(e, reply, out) ==
    /\ last' = [op |-> "requestPaused", event |-> e, reply |-> reply,
                trace |-> out.trace, threw |-> out.threw,
                pending |-> e.requestId \in contextCache]
    /\ contextCache' = out.contextCache
    /\ listenersCache' = out.listenersCache
    /\ listeners' = RoutesAfterDispatch(listeners, e)
    /\ UNCHANGED bodyParser

Dispatch(e, program, reply) ==
    /\ last = Idle
    /\ Dispatched(e, reply, RequestPaused(e, program, reply))

\* The transport delivers a pause event, whatever was delivered before.
Paused(e, program, reply) ==
    /\ Dispatch(e, program, reply)
    /\ UNCHANGED <<stage, transport,
                   inflight>>

\* The caller of the latest operation takes its result.
Return ==
    /\ last # Idle
    /\ last' = Idle
    /\ UNCHANGED <<listeners, listenersCache, contextCache, bodyParser, stage,
                 transport,
                 inflight>>

\* Pause events that vary the routing: every request id, method, origin
\* and pathname, in the request phase.
PausedRequestRouting ==
    \E id \in RequestIds, m \in RoutingMethods, o \in RoutingOrigins,
       pn \in RoutingPaths, pi \in 1..2 :
        Paused(RequestEvent(id, m, Url(o, pn, <<>>), <<>>, <<>>),
               RequestPrograms[pi], NoReply)

\* The same in the response phase.
PausedResponseRouting ==
    \E id \in RequestIds, m \in RoutingMethods, o \in RoutingOrigins,
       pn \in RoutingPaths, pi \in 1..2 :
        Paused(ResponseEvent(id, m, Url(o, pn, <<>>), <<>>, <<>>, 200, "OK",
                             <<>>),
               ResponsePrograms[pi], ResponseContents[3].reply)

\* Request-phase pause events that vary the content of the message and
\* what the callback does with it.
PausedRequestContent ==
    \E ci \in DOMAIN RequestContents, pi \in DOMAIN RequestPrograms :
        Paused(RequestEvent("r1", "GET", Url(OriginA, PathNine, SearchKV),
                            RequestContents[ci].headers,
                            RequestContents[ci].post),
               RequestPrograms[pi], NoReply)

\* The same in the response phase.
PausedResponseContent ==
    \E ci \in DOMAIN ResponseContents, pi \in DOMAIN ResponsePrograms :
        Paused(ResponseEvent("r1", "GET", Url(OriginA, PathNine, SearchKV),
                             <<>>, ResponseContents[ci].post,
                             ResponseContents[ci].code,
                             ResponseContents[ci].text,
                             ResponseContents[ci].headers),
               ResponsePrograms[pi], ResponseContents[ci].reply)

\* The query string k=v&k=w, in which the key k is repeated.
SearchRepeated == <<"k", "=", "v", "&", "k", "=", "w">>

\* Request-phase pause events whose URL repeats a query key; the callback
\* does nothing, or adds the unrelated entry j=w to the query.
PausedRepeatedQuery ==
    \E pi \in {1, 17} :
        Paused(RequestEvent("r1", "GET", Url(OriginA, PathNine, SearchRepeated),
                            <<>>, <<>>),
               RequestPrograms[pi], NoReply)

\* The query string k=v&j=w.
SearchKVJW == <<"k", "=", "v", "&", "j", "=", "w">>

\* Pause events whose callback removes an entry of a map and inserts it
\* again with the same value, which moves it behind the other entry: a
\* query entry in the request phase, a header in the response phase.
PausedReordered ==
    \/ Paused(RequestEvent("r1", "GET", Url(OriginA, PathNine, SearchKVJW),
                           <<>>, <<>>),
              <<St("query.delete", <<"k">>, <<>>),
                St("query.set", <<"k">>, <<"v">>)>>,
              NoReply)
    \/ Paused(ResponseEvent("r1", "GET", Url(OriginA, PathNine, SearchKV),
                            <<>>, <<>>, 200, "OK",
                            ResponseContents[1].headers),
              <<St("headers.delete", NameFoo, <<>>),
                St("headers.set", NameFoo, <<"bar">>)>>,
              ResponseContents[1].reply)

\* The pause event e delivered without one of its optional fields.
Without(e, field) == [f \in DOMAIN e \ {field} |-> e[f]]

\* Pause events with a partial or unusual status: a status code without a
\* status text, a status text without a status code, and an empty status
\* text with a code the table of reason phrases does not hold.
PausedPartialStatus ==
    \/ \E field \in {"responseStatusText", "responseStatusCode"},
          pi \in 1..2 :
          Paused(Without(ResponseEvent("r1", "GET",
                                       Url(OriginA, PathNine, SearchKV),
                                       <<>>, <<>>, 404, "", <<>>), field),
                 RequestPrograms[pi], ResponseContents[3].reply)
    \/ \E pi \in 1..2 :
          Paused(ResponseEvent("r1", "GET", Url(OriginA, PathNine, SearchKV),
                               <<>>, <<>>, 299, "", <<>>),
                 ResponsePrograms[pi], ResponseContents[3].reply)

\* The reply of the transport when it rejects the calls of kind api.
RejectingReply(reply, api) ==
    [base64Encoded |-> reply.base64Encoded, body |-> reply.body,
     rejects |-> api]

\* Pause events during whose dispatch the transport rejects a call: the
\* resume command of a request or of a response, or getResponseBody.
PausedTransportRejects ==
    \/ \E m \in {"GET", "BAD"}, pi \in 1..2 :
          Paused(RequestEvent("r1", m, Url(OriginA, PathNine, SearchKV),
                              <<>>, <<>>),
                 RequestPrograms[pi], RejectingReply(NoReply, "command"))
    \/ \E ci \in {3, 4}, pi \in 1..2,
          api \in {"getResponseBody", "command"} :
          Paused(ResponseEvent("r1", "GET", Url(OriginA, PathNine, SearchKV),
                               <<>>, ResponseContents[ci].post,
                               ResponseContents[ci].code,
                               ResponseContents[ci].text,
                               ResponseContents[ci].headers),
                 ResponsePrograms[pi],
                 RejectingReply(ResponseContents[ci].reply, api))

\* Pause events for the path registered through any(), with every
\* supported method, in both phases.
PausedAnyMethod ==
    /\ \E i \in DOMAIN AllInvocationMethods :
          \/ Paused(RequestEvent("r1", AllInvocationMethods[i],
                                 Url(OriginA, PathAll, <<>>), <<>>, <<>>),
                    RequestPrograms[1], NoReply)
          \/ Paused(ResponseEvent("r1", AllInvocationMethods[i],
                                  Url(OriginA, PathAll, <<>>), <<>>, <<>>,
                                  200, "OK", <<>>),
                    ResponsePrograms[1], ResponseContents[3].reply)
    /\ Cardinality({k \in DOMAIN listenersCache' :
                        k[1] \notin RoutingMethods}) <= MaxAnyCached

Next ==
    \/ \E i \in DOMAIN Registrations : Handle(Registrations[i])
    \/ \E i \in DOMAIN AnyRegistrations : any(AnyRegistrations[i])
    \/ PausedAnyMethod
    \/ PausedRequestRouting
    \/ PausedResponseRouting
    \/ PausedRequestContent
    \/ PausedResponseContent
    \/ PausedTransportRejects
    \/ PausedPartialStatus
    \/ PausedRepeatedQuery
    \/ PausedReordered
    \/ Return

Spec == Init /\ [][Next]_vars

\* ------------------------------------------------------------------------
\* The browser as the Fetch domain drives it: a request is paused once
\* before it is sent, and once more with its response when (and only when)
\* the continueRequest that resumed it asked for response interception.
\* ------------------------------------------------------------------------

PageUrl == Url(OriginA, PathNine, <<>>)

\* The resume commands among the calls of a dispatch.
Resumes(trace) ==
    SelectSeq(trace, LAMBDA c :
        c.kind \in {"continueRequest", "continueResponse", "fulfillRequest"})

\* The callback invocations among the calls of a dispatch.
Invocations(trace) ==
    SelectSeq(trace, LAMBDA c : c.kind \in {"onRequest", "onResponse"})

\* The routes registered under a method and an origin, in registration
\* order.
Registered(method, origin) ==
    IF <<method, origin>> \in DOMAIN listeners
    THEN listeners[<<method, origin>>]
    ELSE <<>>

\* The registered routes whose method, origin and path template accept the
\* event, in registration order.
Accepting(e) ==
    SelectSeq(Registered(e.request.method, e.request.url.origin),
              LAMBDA r : MatchFn(r.matchFn.template, e.request.url.pathname))

\* The earliest-registered route of the table that accepts the event,
\* <<>> when there is none.
FirstRoute(e) ==
    LET a == Accepting(e)
    IN  IF a = <<>> THEN <<>> ELSE <<a[1]>>

\* Where the request is once the dispatch that paused it at `at` returned.
StageAfter(at, trace) ==
    LET r == Resumes(trace)
    IN  IF r = <<>>
        THEN "blocked"
        ELSE IF /\ at = "request"
                /\ r[1].kind = "continueRequest"
                /\ "interceptResponse" \in DOMAIN r[1].args
                /\ r[1].args.interceptResponse
        THEN "headers"
        ELSE "done"

\* The page issues request id; the browser pauses it before sending it.
BrowserRequest(id, program) ==
    /\ stage[id].at = "new"
    /\ Dispatch(RequestEvent(id, "GET", PageUrl, <<>>, <<>>), program, NoReply)
    /\ stage' = [stage EXCEPT ![id] =
          [at |-> "request",
           expect |-> LET r == FirstRoute(RequestEvent(id, "GET", PageUrl,
                                                       <<>>, <<>>))
                      IN  r # <<>> /\ "onResponse" \in r[1].callbacks,
           responses |-> 0]]
    /\ UNCHANGED <<transport, inflight>>

\* The response of request id arrived; the browser pauses it.
BrowserResponse(id, program, reply) ==
    /\ stage[id].at = "headers"
    /\ Dispatch(ResponseEvent(id, "GET", PageUrl, <<>>, <<>>, 200, "OK", <<>>),
                program, reply)
    /\ stage' = [stage EXCEPT
          ![id].at = "response",
          ![id].responses = @ + Len(SelectSeq(last'.trace,
                                     LAMBDA c : c.kind = "onResponse"))]
    /\ UNCHANGED <<transport, inflight>>

\* The browser acts on the commands of the latest dispatch.
BrowserResume ==
    /\ last # Idle
    /\ last' = Idle
    /\ stage' = IF last.op = "requestPaused"
                THEN [stage EXCEPT ![last.event.requestId].at =
                         StageAfter(@, last.trace)]
                ELSE stage
    /\ UNCHANGED <<listeners, listenersCache, contextCache, bodyParser,
                   transport,
                   inflight>>

NextProtocol ==
    \/ \E i \in DOMAIN Registrations : Handle(Registrations[i])
    \/ \E id \in RequestIds, pi \in {1, 4} :
            BrowserRequest(id, RequestPrograms[pi])
    \/ \E id \in RequestIds, pi \in {1, 2} :
            BrowserResponse(id, ResponsePrograms[pi], ResponseContents[3].reply)
    \/ BrowserResume

SpecProtocol == Init /\ [][NextProtocol]_vars

\* ------------------------------------------------------------------------
\* The public facade and its transport: enable() subscribes the dispatch
\* function and starts interception; once interception is on the browser
\* pauses the page's request, and the transport hands the event to every
\* subscribed callback.
\* ------------------------------------------------------------------------

\* enable() is called at most this many times.
MaxEnables == 2

\* async params => await this.requestPaused(params)
DispatchFunction == <<"params => this.requestPaused(params)">>

\* What a call of enable() does to the transport: Fetch.requestPaused adds
\* a subscriber; Fetch.enable starts interception, with the subscribers
\* there are at that moment.
TransportApply(t, call) ==
    CASE call.kind = "requestPaused" ->
            [t EXCEPT !.subscribers = @ + 1]
      [] call.kind = "enable" ->
            [t EXCEPT !.enables = @ + 1,
                      !.intercepting = TRUE,
                      !.startedWith = IF t.intercepting
                                      THEN @ ELSE t.subscribers]
      [] OTHER -> t

RECURSIVE TransportApplyAll(_, _)
TransportApplyAll(t, calls) ==
    IF calls = <<>>
    THEN t
    ELSE TransportApplyAll(TransportApply(t, calls[1]), Tail(calls))

\* The command issued first, the subscription made second.
EnableCallsCommandFirst(callback) ==
    <<Call("enable", <<>>), Call("requestPaused", callback)>>

\* The calls enable() makes on the transport, in order (lines 468-469).
EnableCalls(callback) ==
    <<Call("requestPaused", callback), Call("enable", <<>>)>>

\* FetchInterceptor.enable()
enable ==
    /\ last = Idle
    /\ transport.enables < MaxEnables
    /\ last' = [op |-> "enable", trace |-> EnableCalls(DispatchFunction)]
    /\ UNCHANGED inflight
    /\ transport' = TransportApplyAll(transport, EnableCalls(DispatchFunction))
    /\ UNCHANGED <<listeners, listenersCache, contextCache, bodyParser, stage>>

\* The parser objects callers register: two under the name of the
\* built-in JSON parser, two under application/ld+json.
ParserA == CustomParser("json", "A")
ParserB == CustomParser("json", "B")
ParserC == CustomParser("ld+json", "C")
ParserD == CustomParser("ld+json", "D")

\* The argument lists of registerBodyParser.
ParserRegistrations ==
    << <<ParserA>>,
       <<ParserB>>,
       <<ParserA, ParserB>>,
       <<ParserB, ParserA>>,
       <<JsonBodyParser>>,
       <<ParserC, ParserD>>,
       <<ParserD>>,
       <<>> >>

\* FetchInterceptor.registerBodyParser(...parsers)
registerBodyParser(parsers) ==
    /\ last = Idle
    /\ bodyParser' = RegisterAll(bodyParser, parsers)
    /\ last' = [op |-> "registerBodyParser", call |-> parsers]
    /\ UNCHANGED <<listeners, listenersCache, contextCache, stage, transport,
                   inflight>>

\* The request the page issues: a JSON body under a JSON content-type.
FacadeEvent ==
    RequestEvent("r1", "GET", PageUrl, RequestContents[3].headers,
                 RequestContents[3].post)

\* Interception is on: the browser pauses the page's request and the
\* transport owes the event to every subscriber.
BrowserPause ==
    /\ last = Idle
    /\ transport.intercepting
    /\ transport.owed = 0
    /\ UNCHANGED inflight
    /\ transport' = [transport EXCEPT !.owed = transport.subscribers]
    /\ UNCHANGED <<listeners, listenersCache, contextCache, bodyParser, last,
                   stage>>

\* The transport calls one subscribed callback with the pause event.
SubscriberDispatch(program) ==
    /\ transport.owed > 0
    /\ Dispatch(FacadeEvent, program, NoReply)
    /\ UNCHANGED inflight
    /\ transport' = [transport EXCEPT !.owed = @ - 1]
    /\ UNCHANGED stage

NextFacade ==
    \/ \E i \in {1, 5} : Handle(Registrations[i])
    \/ enable
    \/ \E i \in DOMAIN ParserRegistrations :
            registerBodyParser(ParserRegistrations[i])
    \/ BrowserPause
    \/ \E pi \in {1, 11} : SubscriberDispatch(RequestPrograms[pi])
    \/ Return

SpecFacade == Init /\ [][NextFacade]_vars

\* ------------------------------------------------------------------------
\* The JSON codec on its own: a form map is encoded, the bytes are parsed
\* back, and the result is encoded again.
\* ------------------------------------------------------------------------

\* Form maps hold at most this many entries.
MaxFormSize == 2

\* Keys and values of the form maps explored: plain text, the empty
\* string, array indices out of order, and the characters JSON escapes or
\* gives a meaning to.
CodecKeys == {<<"a">>, <<"2">>, <<"1">>, <<>>, <<Quote>>}
CodecValues ==
    {<<"x">>, <<>>, <<Quote>>, <<Backslash>>, <<LoneSurrogate>>,
     <<"}", ",", ":">>}

\* The string-to-string maps of at most MaxFormSize entries.
CodecForms ==
    UNION {{f \in [1..n -> CodecKeys \X CodecValues] :
                \A i, j \in 1..n : i # j => f[i][1] # f[j][1]} :
           n \in 0..MaxFormSize}

InitCodec ==
    /\ listeners = <<>>
    /\ listenersCache = <<>>
    /\ contextCache = {}
    /\ bodyParser = RegisterBodyParser(
                        RegisterBodyParser(<<>>, JsonBodyParser),
                        UrlEncodedBodyParser)
    /\ stage = [id \in RequestIds |-> NewStage]
    /\ transport = NewTransport
    /\ inflight = NoFlights
    /\ \E form \in CodecForms : last = [op |-> "form", form |-> form]

\* parser.encode(Object.fromEntries(form))
CodecEncode ==
    /\ last.op = "form"
    /\ last' = [op |-> "encoded", form |-> last.form,
                bytes |-> JsonBodyParserEncode(ObjectFromEntries(last.form))]
    /\ UNCHANGED <<listeners, listenersCache, contextCache, bodyParser, stage,
                 transport,
                 inflight>>

\* new Map(Object.entries(parser.parse(bytes)))
CodecParse ==
    /\ last.op = "encoded"
    /\ last' = [op |-> "parsed", form |-> last.form, bytes |-> last.bytes,
                parsed |-> MapFromEntries(JsonBodyParserParse(last.bytes))]
    /\ UNCHANGED <<listeners, listenersCache, contextCache, bodyParser, stage,
                 transport,
                 inflight>>

\* parser.encode(Object.fromEntries(parsed))
CodecReencode ==
    /\ last.op = "parsed"
    /\ last' = [op |-> "reencoded", form |-> last.form,
                bytes |-> last.bytes, parsed |-> last.parsed,
                again |-> JsonBodyParserEncode(ObjectFromEntries(last.parsed))]
    /\ UNCHANGED <<listeners, listenersCache, contextCache, bodyParser, stage,
                 transport,
                 inflight>>

NextCodec ==
    \/ CodecEncode
    \/ CodecParse
    \/ CodecReencode

SpecCodec == InitCodec /\ [][NextCodec]_vars

\* ------------------------------------------------------------------------
\* Properties
\* ------------------------------------------------------------------------

\* The latest operation was the dispatch of a pause event.
IsDispatch == last.op = "requestPaused"

\* A header name holds no upper-case letter.
IsLowerCaseName(name) ==
    \A i \in DOMAIN name : \A j \in DOMAIN UpperLetters :
        name[i] # UpperLetters[j]

\* The entries of a map, as a set.
EntrySet(m) == {m[i] : i \in DOMAIN m}

\* The entries of a header map with the names folded to lower case.
FoldedEntrySet(m) == {<<ToLowerCase(m[i][1]), m[i][2]>> : i \in DOMAIN m}

\* The callback invocation c changed the content of a field of `this`.
Changed(c) ==
    IF c.kind = "onRequest"
    THEN \/ c.after.method # c.this.method
         \/ c.after.url # c.this.url
         \/ c.after.body # c.this.body
         \/ EntrySet(c.after.params) # EntrySet(c.this.params)
         \/ EntrySet(c.after.query) # EntrySet(c.this.query)
         \/ EntrySet(c.after.form) # EntrySet(c.this.form)
         \/ FoldedEntrySet(c.after.requestHeaders)
               # FoldedEntrySet(c.this.requestHeaders)
    ELSE \/ c.after.statusCode # c.this.statusCode
         \/ c.after.statusText # c.this.statusText
         \/ c.after.body # c.this.body
         \/ EntrySet(c.after.form) # EntrySet(c.this.form)
         \/ FoldedEntrySet(c.after.responseHeaders)
               # FoldedEntrySet(c.this.responseHeaders)

\* The fields of a command that override the message.
OverrideFields(kind) ==
    CASE kind = "continueRequest" -> {"url", "method", "headers", "postData"}
      [] kind = "fulfillRequest" ->
            {"responsePhrase", "responseHeaders", "body"}
      [] OTHER -> {}

\* C1: a pause event, in either phase, that no registered route accepts is
\* answered by exactly one continueRequest carrying only the request id;
\* no callback runs and nothing else is called on the transport.
C1_PassThroughOnNoMatch ==
    (IsDispatch /\ Accepting(last.event) = <<>>)
        => last.trace = <<Call("continueRequest",
                               [requestId |-> last.event.requestId])>>

\* C1 witness: a response-phase event whose method and origin have routes,
\* none of which accepts the path, was passed through.
C1_Witness ==
    /\ IsDispatch
    /\ ~IsReq(last.event)
    /\ Registered(last.event.request.method,
                  last.event.request.url.origin) # <<>>
    /\ Accepting(last.event) = <<>>
    /\ Len(last.trace) = 1

\* C2: when the callback of the matched route returns with `this` exactly
\* as it received it, the command is {requestId, interceptResponse: true}
\* in the request phase and a fulfillRequest with {requestId, responseCode:
\* the original status code} in the response phase.
C2_MinimalCommandWhenUnchanged ==
    IsDispatch =>
        \A i \in DOMAIN Invocations(last.trace) :
            LET c == Invocations(last.trace)[i]
                id == last.event.requestId
            IN  (c.after = c.this /\ ~last.threw) =>
                  Resumes(last.trace) =
                    IF c.kind = "onRequest"
                    THEN <<Call("continueRequest",
                                [requestId |-> id,
                                 interceptResponse |-> TRUE])>>
                    ELSE <<Call("fulfillRequest",
                                [requestId |-> id,
                                 responseCode |->
                                    last.event.responseStatusCode])>>

\* C2 witness: onResponse returned a response with headers unchanged and
\* the fulfillRequest carries two fields.
C2_Witness ==
    /\ IsDispatch
    /\ ~last.threw
    /\ Len(last.trace) = 3
    /\ last.trace[2].kind = "onResponse"
    /\ last.trace[2].after = last.trace[2].this
    /\ last.trace[2].this.responseHeaders # <<>>
    /\ DOMAIN last.trace[3].args = {"requestId", "responseCode"}

\* C3: a command carries either none or all of the overriding fields (url,
\* method, headers, postData for continueRequest; responsePhrase,
\* responseHeaders, body next to responseCode for fulfillRequest), and it
\* carries all of them when the callback changed the content of any field.
C3_AllFieldsOnAnyChange ==
    IsDispatch =>
        \A i \in DOMAIN Resumes(last.trace) :
            LET c == Resumes(last.trace)[i]
                f == DOMAIN c.args \cap OverrideFields(c.kind)
            IN  /\ f = {} \/ f = OverrideFields(c.kind)
                /\ \A j \in DOMAIN Invocations(last.trace) :
                      Changed(Invocations(last.trace)[j])
                          => f = OverrideFields(c.kind)

\* C3 witness: onRequest changed the query only and the continueRequest
\* carries url, method, headers and postData.
C3_Witness ==
    /\ IsDispatch
    /\ Len(last.trace) = 2
    /\ last.trace[1].kind = "onRequest"
    /\ last.trace[1].after.query # last.trace[1].this.query
    /\ [last.trace[1].after EXCEPT !.query = last.trace[1].this.query]
          = last.trace[1].this
    /\ last.trace[2].kind = "continueRequest"
    /\ OverrideFields("continueRequest") \subseteq DOMAIN last.trace[2].args

\* C4: the callbacks that run for a pause event are those of the
\* earliest-registered route, among all routes registered so far, whose
\* method, origin and path template accept the event: no other route's
\* callback runs, and that route's callback for the phase does run.
C4_EarliestRegisteredRouteRuns ==
    IsDispatch =>
        LET a == Accepting(last.event)
            inv == Invocations(last.trace)
            cb == IF IsReq(last.event) THEN "onRequest" ELSE "onResponse"
        IN  /\ \A i \in DOMAIN inv :
                  /\ a # <<>>
                  /\ inv[i].route = a[1].matchFn.id
                  /\ inv[i].kind = cb
            /\ (a # <<>> /\ cb \in a[1].callbacks) => inv # <<>>

\* C5: whenever a registered route accepts a request-phase pause event,
\* the continueRequest issued for it carries interceptResponse: true.
C5_AlwaysInterceptResponse ==
    (IsDispatch /\ IsReq(last.event) /\ Accepting(last.event) # <<>>) =>
        \A i \in DOMAIN Resumes(last.trace) :
            LET c == Resumes(last.trace)[i]
            IN  /\ c.kind = "continueRequest"
                /\ "interceptResponse" \in DOMAIN c.args
                /\ c.args.interceptResponse

\* C6: with a browser that pauses a response only when the request's
\* continueRequest asked for it, a request accepted by a route that
\* registers onResponse has had onResponse invoked exactly once by the
\* time the page has its response.
C6_OnResponseRunsOnce ==
    \A id \in RequestIds :
        (stage[id].at = "done" /\ stage[id].expect)
            => stage[id].responses = 1

C8_HeaderNamesLowerCase ==
    IsDispatch =>
        \A i \in DOMAIN last.trace :
            LET c == last.trace[i]
            IN  /\ (c.kind = "continueRequest" /\ "headers" \in DOMAIN c.args)
                      => \A j \in DOMAIN c.args.headers :
                            IsLowerCaseName(c.args.headers[j][1])
                /\ (c.kind = "fulfillRequest"
                        /\ "responseHeaders" \in DOMAIN c.args)
                      => \A j \in DOMAIN c.args.responseHeaders :
                            IsLowerCaseName(c.args.responseHeaders[j][1])

\* C8 witness: the transport delivered Content-Type, onRequest set FoO,
\* and the continueRequest lists content-type and foo.
C8_Witness ==
    /\ IsDispatch
    /\ Len(last.trace) = 2
    /\ last.trace[1].kind = "onRequest"
    /\ MapHas(last.event.request.headers, NameContentType)
    /\ MapHas(last.trace[1].after.requestHeaders, NameFoO)
    /\ last.trace[2].kind = "continueRequest"
    /\ "headers" \in DOMAIN last.trace[2].args
    /\ MapHas(last.trace[2].args.headers, ToLowerCase(NameFoO))
    /\ MapHas(last.trace[2].args.headers, ContentTypeName)

\* The names a callback looks headers up by.
LookupNames == {NameFoo, NameFoO, NameContentType, ContentTypeName}

\* C9: inside a callback, requestHeaders.get / responseHeaders.get with a
\* name that equals, ignoring case, the name of a header delivered with
\* the message returns the value of such a header.
C9_CaseInsensitiveLookup ==
    IsDispatch =>
        \A i \in DOMAIN Invocations(last.trace) :
            LET c == Invocations(last.trace)[i]
                delivered == IF c.kind = "onRequest"
                             THEN last.event.request.headers
                             ELSE last.event.responseHeaders
            IN  \A j \in DOMAIN delivered : \A n \in LookupNames :
                    ToLowerCase(n) = ToLowerCase(delivered[j][1]) =>
                        MapGet(c.this[HeadersField(c.this)], n) \in
                            {delivered[k][2] : k \in
                                {x \in DOMAIN delivered :
                                    ToLowerCase(delivered[x][1])
                                        = ToLowerCase(n)}}

\* C10: a callback runs only for events whose method and origin are those
\* its route was registered under.
C10_RouteIsolation ==
    IsDispatch =>
        \A i \in DOMAIN Invocations(last.trace) :
            LET c == Invocations(last.trace)[i]
                keys == {k \in DOMAIN listeners :
                            \E j \in DOMAIN listeners[k] :
                                listeners[k][j].matchFn.id = c.route}
            IN  keys = {<<last.event.request.method,
                          last.event.request.url.origin>>}

\* C10 witness: a callback ran while a route registered under another
\* method or origin also has a template accepting the path.
C10_Witness ==
    /\ IsDispatch
    /\ Invocations(last.trace) # <<>>
    /\ \E k \in DOMAIN listeners :
          /\ k # <<last.event.request.method, last.event.request.url.origin>>
          /\ \E j \in DOMAIN listeners[k] :
                MatchFn(listeners[k][j].matchFn.template,
                        last.event.request.url.pathname)

\* The routes the dispatcher scans for the event (the cached array of its
\* method and origin) hold one whose template accepts the path.
Matched(e) ==
    LET key == <<e.request.method, e.request.url.origin>>
    IN  /\ key \in DOMAIN listenersCache
        /\ \E i \in DOMAIN listenersCache[key] :
              MatchFn(listenersCache[key][i].matchFn.template,
                      e.request.url.pathname)

\* The getResponseBody calls among the calls of a dispatch.
BodyFetches(trace) ==
    SelectSeq(trace, LAMBDA c : c.kind = "getResponseBody")

\* C11: in the response phase, a status code in [300, 400) means
\* getResponseBody is never called and the callback sees an empty body;
\* with any other status code a matched event has getResponseBody called
\* exactly once, first, before onResponse.
C11_RedirectShortCircuit ==
    (IsDispatch /\ ~IsReq(last.event)) =>
        IF /\ last.event.responseStatusCode >= 300
           /\ last.event.responseStatusCode < 400
        THEN /\ BodyFetches(last.trace) = <<>>
             /\ \A i \in DOMAIN Invocations(last.trace) :
                   Invocations(last.trace)[i].this.body = <<>>
        ELSE Matched(last.event) =>
                /\ Len(BodyFetches(last.trace)) = 1
                /\ last.trace[1].kind = "getResponseBody"

\* C11 witness: onResponse ran for a 302 with an empty body and nothing
\* was fetched.
C11_Witness ==
    /\ IsDispatch
    /\ ~IsReq(last.event)
    /\ last.event.responseStatusCode = 302
    /\ Len(last.trace) >= 1
    /\ last.trace[1].kind = "onResponse"
    /\ last.trace[1].this.body = <<>>

\* A registration call that the contract rejects: its method is none of
\* the eight supported ones, or its pattern is not a URL.
Rejected(call) ==
    \/ call.method \notin
          {"GET", "HEAD", "POST", "PUT", "DELETE", "OPTIONS", "TRACE", "PATCH"}
    \/ ~call.pattern.valid

\* C12: a registration call with an unsupported method or a malformed
\* pattern throws and changes neither the route table nor anything else
\* a later dispatch reads.
C12_RejectedRegistrationLeavesTable ==
    [][(last'.op = "handle" /\ last.op # "handle" /\ Rejected(last'.call))
          => /\ last'.threw
             /\ UNCHANGED <<listeners, listenersCache, contextCache,
                            bodyParser>>]_vars

\* C12 witness: a call with method BAD threw while the table holds a route.
C12_Witness ==
    /\ last.op = "handle"
    /\ last.threw
    /\ last.call.method = "BAD"
    /\ listeners # <<>>

\* The earliest-registered route accepting the event was installed by
\* any(): only any() registers the template /all.
FirstRouteByAny(e) ==
    /\ FirstRoute(e) # <<>>
    /\ FirstRoute(e)[1].matchFn.template = TemplateAll

\* C13: once any(pattern, callbacks) has been called, a pause event for
\* the pattern's origin and path with any of the eight methods has the
\* callback of its phase invoked, from the route any() installed.
C13_AnyDispatchesEveryMethod ==
    (IsDispatch /\ FirstRouteByAny(last.event)) =>
        /\ Len(Invocations(last.trace)) = 1
        /\ Invocations(last.trace)[1].route
              = FirstRoute(last.event)[1].matchFn.id
        /\ Invocations(last.trace)[1].kind
              = IF IsReq(last.event) THEN "onRequest" ELSE "onResponse"

\* any() leaves the table eight handle calls leave: one route per method,
\* in the order of the enumeration, under the pattern's origin.
C13_AnyIsEightHandles ==
    [][(last'.op = "any" /\ last.op # "any" /\ ~last'.threw) =>
          /\ DOMAIN listeners' = DOMAIN listeners \cup
                {<<AllInvocationMethods[i], last'.call.pattern.origin>> :
                    i \in DOMAIN AllInvocationMethods}
          /\ \A i \in DOMAIN AllInvocationMethods :
                LET key == <<AllInvocationMethods[i],
                             last'.call.pattern.origin>>
                    old == IF key \in DOMAIN listeners
                           THEN listeners[key] ELSE <<>>
                IN  listeners'[key] = Append(old,
                        [matchFn |-> [id |-> RouteCount(listeners) + i,
                                      template |->
                                          last'.call.pattern.pathname],
                         pattern |-> last'.call.pattern.pathname,
                         callbacks |-> last'.call.callbacks])
          /\ \A k \in DOMAIN listeners :
                k[2] # last'.call.pattern.origin
                    => listeners'[k] = listeners[k]]_vars

\* A string that crossed the protocol carries the bytes: as their base64
\* text, or as their UTF-8 text.
Carries(w, bytes) ==
    IF w.base64 THEN FromBase64(w) = bytes ELSE w.data = TextDecode(bytes)

\* The codec registered for the content-type of the callback's headers as
\* they stand when it returns.
CodecAfter(c) ==
    GetBodyParser(bodyParser,
                  ContentTypeHeader(FormatHeaders(c.after[HeadersField(c.after)])))

\* The callback invocation c changed the form.
FormChanged(c) == EntrySet(c.after.form) # EntrySet(c.this.form)

\* The body the contract selects for the command after invocation c.
SelectedBody(c) ==
    IF FormChanged(c) /\ CodecAfter(c) # Undefined
    THEN ParserEncode(CodecAfter(c), ObjectFromEntries(c.after.form))
    ELSE IF c.after.body # <<>> THEN c.after.body ELSE c.this.body

\* C14: when the callback changed something, the body of the command is
\* the codec encoding of the callback's form if the form changed and the
\* content-type left by the callback has a codec; otherwise the callback's
\* body if it is not empty; otherwise the original body.
C14_BodySelection ==
    (IsDispatch /\ ~last.threw) =>
        \A i \in DOMAIN Invocations(last.trace) :
            LET c == Invocations(last.trace)[i]
                r == last.trace[Len(last.trace)]
            IN  Changed(c) =>
                  IF c.kind = "onRequest"
                  THEN /\ r.kind = "continueRequest"
                       /\ "postData" \in DOMAIN r.args
                       /\ Carries(r.args.postData, SelectedBody(c))
                  ELSE /\ r.kind = "fulfillRequest"
                       /\ "body" \in DOMAIN r.args
                       /\ Carries(r.args.body, SelectedBody(c))

\* C14 witness: onResponse changed both the form and the body under a JSON
\* content-type, and the command carries the encoded form, not the body.
C14_Witness ==
    /\ IsDispatch
    /\ ~last.threw
    /\ Len(last.trace) = 3
    /\ last.trace[2].kind = "onResponse"
    /\ FormChanged(last.trace[2])
    /\ last.trace[2].after.body # last.trace[2].this.body
    /\ last.trace[2].after.body # <<>>
    /\ CodecAfter(last.trace[2]) = JsonBodyParser
    /\ last.trace[3].kind = "fulfillRequest"
    /\ Carries(last.trace[3].args.body,
               JsonBodyParserEncode(last.trace[2].after.form))
    /\ ~Carries(last.trace[3].args.body, last.trace[2].after.body)

\* The original body is forwarded when the callback empties the body.
C14_WitnessEmptied ==
    /\ IsDispatch
    /\ ~last.threw
    /\ Len(last.trace) = 2
    /\ last.trace[1].kind = "onRequest"
    /\ last.trace[1].this.body # <<>>
    /\ last.trace[1].after.body = <<>>
    /\ Carries(last.trace[2].args.postData, last.trace[1].this.body)

\* The route whose callback invocation c is.
RouteOf(c) ==
    LET key == <<last.event.request.method, last.event.request.url.origin>>
        i == CHOOSE i \in DOMAIN listeners[key] :
                listeners[key][i].matchFn.id = c.route
    IN  listeners[key][i]

\* The pathname a template generates from parameter values.
Instantiate(template, params) ==
    [i \in DOMAIN template |->
        IF template[i][1] = "lit"
        THEN template[i][2]
        ELSE MapGet(params, template[i][2])]

\* The continueRequest of the latest dispatch.
Continue == last.trace[Len(last.trace)]

\* C15: when onRequest changed a path parameter, the url of the
\* continueRequest is the event's URL with its path replaced by the
\* route's template instantiated with the callback's parameter values.
C15_ParamsRewritePath ==
    (IsDispatch /\ ~last.threw) =>
        \A i \in DOMAIN Invocations(last.trace) :
            LET c == Invocations(last.trace)[i]
            IN  (c.kind = "onRequest"
                    /\ EntrySet(c.after.params) # EntrySet(c.this.params)) =>
                  /\ Continue.kind = "continueRequest"
                  /\ "url" \in DOMAIN Continue.args
                  /\ Continue.args.url.origin = last.event.request.url.origin
                  /\ Continue.args.url.pathname
                        = Instantiate(RouteOf(c).pattern, c.after.params)

\* C15 witness: route /test/:id, request /test/9, the callback set id to
\* 12345 and the continueRequest url has the path /test/12345.
C15_Witness ==
    /\ IsDispatch
    /\ Len(last.trace) = 2
    /\ last.trace[1].kind = "onRequest"
    /\ last.event.request.url.pathname = PathNine
    /\ RouteOf(last.trace[1]).pattern = TemplateId
    /\ MapGet(last.trace[1].after.params, <<"id">>) = <<"12345">>
    /\ last.trace[2].args.url.pathname = << <<"test">>, <<"12345">> >>

\* C16: when onRequest changed the query map, the url of the
\* continueRequest carries the serialisation of the callback's final
\* query map as its query string.
C16_QueryReserialised ==
    (IsDispatch /\ ~last.threw) =>
        \A i \in DOMAIN Invocations(last.trace) :
            LET c == Invocations(last.trace)[i]
            IN  (c.kind = "onRequest"
                    /\ EntrySet(c.after.query) # EntrySet(c.this.query)) =>
                  /\ Continue.kind = "continueRequest"
                  /\ "url" \in DOMAIN Continue.args
                  /\ Continue.args.url.search
                        = UrlSearchParamsToString(c.after.query)

\* C16 witness: the callback added j=w to the query k=v and the url
\* carries k=v&j=w.
C16_Witness ==
    /\ IsDispatch
    /\ Len(last.trace) = 2
    /\ last.trace[1].kind = "onRequest"
    /\ last.trace[1].this.query = << <<<<"k">>, <<"v">>>> >>
    /\ MapHas(last.trace[1].after.query, <<"j">>)
    /\ last.trace[2].args.url.search = <<"k", "=", "v", "&", "j", "=", "w">>

\* C17: a form map encoded by the JSON codec and parsed back is the
\* original map (the same keys with the same values), and encoding the
\* parsed map again gives the same bytes.
C17_JsonRoundTrip ==
    /\ last.op \in {"parsed", "reencoded"} =>
          /\ Len(last.parsed) = Len(last.form)
          /\ EntrySet(last.parsed) = EntrySet(last.form)
    /\ last.op = "reencoded" => last.again = last.bytes

\* C17 witness: a map with two entries, whose keys enumerate in another
\* order than they were inserted and whose values hold a quote and a lone
\* surrogate, went through the round trip.
C17_Witness ==
    /\ last.op = "reencoded"
    /\ last.form = << <<<<"a">>, <<Quote>>>>, <<<<"1">>, <<LoneSurrogate>>>> >>
    /\ last.parsed # last.form
    /\ last.again = last.bytes

\* The codec the dispatcher resolves for the body of the event: from the
\* request headers in the request phase, from the response headers in the
\* response phase.
ResolvedCodec(e) ==
    GetBodyParser(bodyParser,
        ContentTypeHeader(MapFromEntries(LowerCaseNames(
            IF IsReq(e)
            THEN e.request.headers
            ELSE IF "responseHeaders" \in DOMAIN e
                 THEN e.responseHeaders ELSE <<>>))))

\* The text of the body of the event: the post data in the request phase,
\* what getResponseBody answered in the response phase.
BodyText(e, reply) ==
    IF IsReq(e)
    THEN PostData(e.request)
    ELSE TextDecode(ResponseBody(Fetched(e, reply)))

\* The event has a body that its resolved codec, the JSON codec, cannot
\* parse.
Unparseable(e, reply) ==
    /\ ResolvedCodec(e) = JsonBodyParser
    /\ BodyText(e, reply) # <<>>
    /\ ~JsonParse(BodyText(e, reply)).ok

\* The first route the dispatcher scans for the event that accepts its
\* path has a callback for the phase of the event.
MatchedCallback(e) ==
    /\ Matched(e)
    /\ LET key == <<e.request.method, e.request.url.origin>>
           i == CHOOSE j \in DOMAIN listenersCache[key] :
                   /\ MatchFn(listenersCache[key][j].matchFn.template,
                              e.request.url.pathname)
                   /\ \A h \in 1..(j - 1) :
                         ~MatchFn(listenersCache[key][h].matchFn.template,
                                  e.request.url.pathname)
       IN  (IF IsReq(e) THEN "onRequest" ELSE "onResponse")
               \in listenersCache[key][i].callbacks

\* C18: a body the resolved codec cannot parse does not make the dispatch
\* fail: the callback of the matched route is invoked exactly once, with
\* an empty form, and, unless the callback or the path recompilation
\* raises, exactly one resume command is issued for the event.
C18_UnparseableBodyStillDispatches ==
    (IsDispatch /\ Unparseable(last.event, last.reply)
                /\ MatchedCallback(last.event)) =>
        /\ Len(Invocations(last.trace)) = 1
        /\ Invocations(last.trace)[1].this.form = <<>>
        /\ LET args == Invocations(last.trace)[1].args
           IN  args[Len(args)] = <<>>
        /\ ~last.threw =>
              /\ Len(Resumes(last.trace)) = 1
              /\ Resumes(last.trace)[1].args.requestId = last.event.requestId

\* C18 witness: a request with the malformed JSON body {bad reached its
\* onRequest callback, which saw an empty form, and the request was
\* continued.
C18_Witness ==
    /\ IsDispatch
    /\ IsReq(last.event)
    /\ Unparseable(last.event, last.reply)
    /\ PostData(last.event.request) = JsonBad
    /\ ~last.threw
    /\ Len(last.trace) = 2
    /\ last.trace[1].kind = "onRequest"
    /\ last.trace[1].this.form = <<>>
    /\ last.trace[1].this.body = TextEncode(JsonBad)
    /\ last.trace[2].kind = "continueRequest"

\* C18 witness in the response phase: the body answered by
\* getResponseBody is malformed JSON, and the response was still resumed.
C18_WitnessResponse ==
    /\ IsDispatch
    /\ ~IsReq(last.event)
    /\ Unparseable(last.event, last.reply)
    /\ ~last.threw
    /\ Len(Invocations(last.trace)) = 1
    /\ Invocations(last.trace)[1].this.form = <<>>
    /\ Len(Resumes(last.trace)) = 1

\* C19: every call of enable() adds exactly one subscriber and issues
\* exactly one enable command, the subscription first; hence whenever
\* interception is on it started with a subscriber in place, and a pause
\* event is owed to at least one subscriber.
C19_EnableSubscribesThenStarts ==
    [][/\ (last'.op = "enable" /\ last.op # "enable") =>
            /\ transport'.subscribers = transport.subscribers + 1
            /\ transport'.enables = transport.enables + 1
            /\ Len(last'.trace) = 2
            /\ last'.trace[1] = Call("requestPaused", DispatchFunction)
            /\ last'.trace[2].kind = "enable"
            /\ UNCHANGED <<listeners, listenersCache, contextCache,
                           bodyParser>>
       /\ transport'.intercepting =>
            /\ transport'.startedWith >= 1
            /\ transport'.subscribers >= 1
       /\ transport'.owed > transport.owed => transport'.owed >= 1]_vars

\* C19 witness: enable() was called a second time; two callbacks are
\* subscribed and two enable commands were issued.
C19_Witness ==
    /\ last.op = "enable"
    /\ transport.subscribers = 2
    /\ transport.enables = 2
    /\ transport.startedWith = 1

\* C19 witness of a delivery: after enable(), a paused request reached the
\* onRequest callback through the subscribed dispatch function.
C19_WitnessDelivered ==
    /\ IsDispatch
    /\ transport.intercepting
    /\ transport.subscribers = 1
    /\ Invocations(last.trace) # <<>>

\* Content-type header values: bare names, a name with a parameter, the
\* type/subtype prefix of application/ld+json, an absent header.
ContentTypes ==
    { <<"application", "/", "json">>,
      <<"application", "/", "json", ";", " charset=utf-8">>,
      <<"application", "/", "x-www-form-urlencoded">>,
      <<"application", "/", "ld", "+", "json">>,
      <<"application", "/", "ld">>,
      <<"text", "/", "html">>,
      <<>> }

\* The parsers of a registerBodyParser call named as the content type
\* resolves, in the order of the call.
NamedAs(call, contentType) ==
    SelectSeq(call, LAMBDA x : ParserName(x) = ContentTypeOf(contentType))

\* C20: after registerBodyParser, a content type that resolves to the name
\* of parsers of the call gets the last of them, whatever was registered
\* under that name before (a built-in parser included); every other
\* content type resolves as before the call.
C20_LastRegistrationWins ==
    [][(last'.op = "registerBodyParser" /\ last.op # "registerBodyParser") =>
          \A ct \in ContentTypes :
              GetBodyParser(bodyParser', ct) =
                  IF NamedAs(last'.call, ct) # <<>>
                  THEN NamedAs(last'.call, ct)[Len(NamedAs(last'.call, ct))]
                  ELSE GetBodyParser(bodyParser, ct)]_vars

\* C20 witness: two parsers named application/json were registered in one
\* call; the content type resolves to the second, not to the first and not
\* to the built-in parser.
C20_Witness ==
    /\ last.op = "registerBodyParser"
    /\ last.call = <<ParserA, ParserB>>
    /\ GetBodyParser(bodyParser, <<"application", "/", "json">>) = ParserB

\* C20 witness of successive calls, seen through a dispatch: A was
\* registered after B, and the onRequest callback of a JSON request got
\* the form parsed by A.
C20_WitnessDispatch ==
    /\ IsDispatch
    /\ GetBodyParser(bodyParser, <<"application", "/", "json">>) = ParserA
    /\ Invocations(last.trace) # <<>>
    /\ Invocations(last.trace)[1].this.form = << <<<<"parser">>, <<"A">>>> >>

\* A parser registered under application/ld+json is resolved by no content
\* type: the resolver reads the prefix application/ld as the name.
C20_LdJsonNeverResolved ==
    \A ct \in ContentTypes :
        GetBodyParser(bodyParser, ct) \notin {ParserC, ParserD}

\* The callback of invocation c ran a throw statement.
Raised(c) == \E i \in DOMAIN c.program : c.program[i].op = "throw"

\* C21: when the onRequest or onResponse callback throws, the dispatch
\* fails with it and issues no continueRequest, continueResponse or
\* fulfillRequest for the event; nothing follows the callback.
C21_HandlerThrowPropagates ==
    IsDispatch =>
        \A i \in DOMAIN last.trace :
            (last.trace[i].kind \in {"onRequest", "onResponse"}
             /\ Raised(last.trace[i])) =>
                /\ last.threw
                /\ Resumes(last.trace) = <<>>
                /\ i = Len(last.trace)

\* C21 witness: onResponse threw after the response body was fetched; the
\* dispatch failed and the response was not resumed.
C21_Witness ==
    /\ IsDispatch
    /\ last.threw
    /\ Len(last.trace) = 2
    /\ last.trace[1].kind = "getResponseBody"
    /\ last.trace[2].kind = "onResponse"
    /\ Raised(last.trace[2])
    /\ Resumes(last.trace) = <<>>

\* C21 witness in the request phase.
C21_WitnessRequest ==
    /\ IsDispatch
    /\ last.threw
    /\ Len(last.trace) = 1
    /\ last.trace[1].kind = "onRequest"
    /\ Raised(last.trace[1])

\* The calls of a dispatch the transport was set to reject.
RejectedCalls(trace, reply) ==
    IF reply.rejects = "command" THEN Resumes(trace) ELSE BodyFetches(trace)

\* C22: when the transport rejects getResponseBody or the resume command,
\* the dispatch fails with the rejection, the rejected call was made once
\* and nothing follows it: no retry and no further command.
C22_TransportRejectionSurfaces ==
    (IsDispatch /\ "rejects" \in DOMAIN last.reply
                /\ RejectedCalls(last.trace, last.reply) # <<>>) =>
        /\ last.threw
        /\ Len(RejectedCalls(last.trace, last.reply)) = 1
        /\ last.trace[Len(last.trace)] =
               RejectedCalls(last.trace, last.reply)[1]
        /\ Len(Resumes(last.trace)) =
               IF last.reply.rejects = "command" THEN 1 ELSE 0

\* C22 witness: getResponseBody was rejected for a matched response; the
\* dispatch failed and neither a callback nor a command followed.
C22_Witness ==
    /\ IsDispatch
    /\ "rejects" \in DOMAIN last.reply
    /\ last.reply.rejects = "getResponseBody"
    /\ last.threw
    /\ Len(last.trace) = 1
    /\ last.trace[1].kind = "getResponseBody"

\* C22 witness: fulfillRequest was rejected after onResponse ran.
C22_WitnessCommand ==
    /\ IsDispatch
    /\ "rejects" \in DOMAIN last.reply
    /\ last.reply.rejects = "command"
    /\ last.threw
    /\ Len(last.trace) = 3
    /\ last.trace[3].kind = "fulfillRequest"

\* The method is none of the eight of the enumeration.
Unsupported(method) ==
    \A i \in DOMAIN AllInvocationMethods : AllInvocationMethods[i] # method

\* C23: the dispatch of a pause event whose method is outside the
\* enumeration, in either phase, issues continueRequest with the request
\* id alone and nothing else: no callback, no getResponseBody; the cache
\* of route arrays and the pending records are left as they were.
C23_UnsupportedMethodPassesThrough ==
    [][(last'.op = "requestPaused" /\ last.op # "requestPaused"
        /\ Unsupported(last'.event.request.method)) =>
          /\ last'.trace = <<Call("continueRequest",
                                  [requestId |-> last'.event.requestId])>>
          /\ UNCHANGED <<listeners, listenersCache, contextCache,
                         bodyParser>>]_vars

\* C23 witness: a response-phase event with the method BAD, for an origin
\* and a path that have a route under GET, was resumed with
\* continueRequest.
C23_Witness ==
    /\ IsDispatch
    /\ ~IsReq(last.event)
    /\ Unsupported(last.event.request.method)
    /\ \E j \in DOMAIN Registered("GET", last.event.request.url.origin) :
          MatchFn(Registered("GET", last.event.request.url.origin)[j]
                      .matchFn.template,
                  last.event.request.url.pathname)
    /\ ~last.threw
    /\ Len(last.trace) = 1
    /\ last.trace[1].kind = "continueRequest"

\* C24: in the response phase, when the content-type of the response
\* resolves to a registered codec, the form given to onResponse (this.form
\* and the argument) is the codec's parse of the response body, whether or
\* not the request carried a body.
C24_ResponseFormIsParsedBody ==
    (IsDispatch /\ ~IsReq(last.event)
                /\ ResolvedCodec(last.event) # Undefined) =>
        \A i \in DOMAIN Invocations(last.trace) :
            LET c == Invocations(last.trace)[i]
            IN  /\ c.this.form =
                      MapFromEntries(ParserParse(ResolvedCodec(last.event),
                                                 c.this.body))
                /\ c.args[1] = c.this.form

\* The callbacks of the first route the dispatcher scans for the event
\* that accepts its path; the event is Matched.
ScannedCallbacks(e) ==
    LET pp == listenersCache[<<e.request.method, e.request.url.origin>>]
    IN  pp[CHOOSE j \in DOMAIN pp :
              /\ MatchFn(pp[j].matchFn.template, e.request.url.pathname)
              /\ \A h \in 1..(j - 1) :
                    ~MatchFn(pp[h].matchFn.template,
                             e.request.url.pathname)].callbacks

\* The event carries a status code, and a status text that is absent or
\* empty.
StatusTextMissing(e) ==
    /\ "responseStatusCode" \in DOMAIN e
    /\ "responseStatusText" \in DOMAIN e => e.responseStatusText = ""

\* C25: for a pause event that carries a status code the table holds and
\* whose status text is absent or empty, onResponse is presented the
\* reason phrase of the table as statusText (the transport answering
\* getResponseBody).
C25_StatusTextDefaulted ==
    (IsDispatch /\ StatusTextMissing(last.event)
                /\ MapHas(HttpStatusText, last.event.responseStatusCode)
                /\ "rejects" \notin DOMAIN last.reply
                /\ Matched(last.event)
                /\ "onResponse" \in ScannedCallbacks(last.event)) =>
        \E i \in DOMAIN last.trace :
            /\ last.trace[i].kind = "onResponse"
            /\ last.trace[i].this.statusText =
                   MapGet(HttpStatusText, last.event.responseStatusCode)

\* The same for an empty status text only: the event carries both fields.
C25_EmptyStatusTextDefaulted ==
    (IsDispatch /\ ~IsReq(last.event) /\ last.event.responseStatusText = ""
                /\ "rejects" \notin DOMAIN last.reply
                /\ Matched(last.event)
                /\ "onResponse" \in ScannedCallbacks(last.event)) =>
        \E i \in DOMAIN last.trace :
            /\ last.trace[i].kind = "onResponse"
            /\ last.trace[i].this.statusText =
                   StatusText(last.event.responseStatusCode, "")
            /\ last.trace[i].this.statusText =
                   IF MapHas(HttpStatusText, last.event.responseStatusCode)
                   THEN MapGet(HttpStatusText, last.event.responseStatusCode)
                   ELSE "UNKNOWN"

\* The event carries both a status code and a status text.
CarriesStatus(e) ==
    "responseStatusCode" \in DOMAIN e /\ "responseStatusText" \in DOMAIN e

\* The kinds of the callbacks and transport calls of a dispatch.
Kinds(trace) == {trace[i].kind : i \in DOMAIN trace}

\* C26: a pause event is handled as response phase exactly when it
\* carries both a status code and a status text.  For an event lacking
\* either, only onRequest is invoked and only continueRequest is called;
\* for an event carrying both, onRequest is never invoked, and when a
\* route is resolved for it the dispatch is made of getResponseBody,
\* onResponse, continueResponse and fulfillRequest only.
C26_PhaseClassification ==
    IsDispatch =>
        IF CarriesStatus(last.event)
        THEN /\ "onRequest" \notin Kinds(last.trace)
             /\ Matched(last.event) =>
                   /\ Kinds(last.trace) # {}
                   /\ Kinds(last.trace) \subseteq
                          {"getResponseBody", "onResponse",
                           "continueResponse", "fulfillRequest"}
        ELSE Kinds(last.trace) \subseteq {"onRequest", "continueRequest"}

\* C26 witness: an event with a status code but no status text reached
\* onRequest and was resumed with continueRequest.
C26_Witness ==
    /\ IsDispatch
    /\ "responseStatusCode" \in DOMAIN last.event
    /\ "responseStatusText" \notin DOMAIN last.event
    /\ ~last.threw
    /\ Len(last.trace) = 2
    /\ last.trace[1].kind = "onRequest"
    /\ last.trace[2].kind = "continueRequest"

\* C26 witness for an event with a status text but no status code.
C26_WitnessNoCode ==
    /\ IsDispatch
    /\ "responseStatusCode" \notin DOMAIN last.event
    /\ "responseStatusText" \in DOMAIN last.event
    /\ Kinds(last.trace) = {"onRequest", "continueRequest"}

\* C27: a response-phase pause whose route has no onResponse callback,
\* and whose body fetch did not fail, issues exactly one continueResponse
\* carrying only the requestId, issues no fulfillRequest and no
\* continueRequest, and invokes no callback.
C27_NoOnResponseContinues ==
    ( /\ IsDispatch
      /\ CarriesStatus(last.event)
      /\ Matched(last.event)
      /\ "onResponse" \notin ScannedCallbacks(last.event)
      /\ ~Rejecting(last.reply, "getResponseBody") ) =>
        /\ Resumes(last.trace) =
              <<Call("continueResponse", [requestId |-> last.event.requestId])>>
        /\ Kinds(last.trace) \subseteq {"getResponseBody", "continueResponse"}
        /\ last.threw = Rejecting(last.reply, "command")

\* C27 witness: a response with a body was fetched and then continued
\* unchanged because the route has only an onRequest callback.
C27_Witness ==
    /\ IsDispatch
    /\ CarriesStatus(last.event)
    /\ Matched(last.event)
    /\ "onResponse" \notin ScannedCallbacks(last.event)
    /\ Len(last.trace) = 2
    /\ last.trace[1].kind = "getResponseBody"
    /\ last.trace[2] =
          Call("continueResponse", [requestId |-> last.event.requestId])
    /\ ~last.threw

\* C27 witness for a redirect, whose body is not fetched.
C27_WitnessRedirect ==
    /\ IsDispatch
    /\ CarriesStatus(last.event)
    /\ Matched(last.event)
    /\ "onResponse" \notin ScannedCallbacks(last.event)
    /\ last.trace =
          <<Call("continueResponse", [requestId |-> last.event.requestId])>>

\* The last operation was a request-phase dispatch for id that matched a
\* route with an onRequest callback, and the callback returned normally.
RecordedBy(id) ==
    /\ IsDispatch
    /\ last.event.requestId = id
    /\ ~CarriesStatus(last.event)
    /\ ~Unsupported(last.event.request.method)
    /\ Matched(last.event)
    /\ "onRequest" \in ScannedCallbacks(last.event)
    /\ \E i \in DOMAIN last.trace :
          /\ last.trace[i].kind = "onRequest"
          /\ ~Raised(last.trace[i])

\* C28: a request id enters contextCache only in a step that dispatched a
\* request-phase pause for it to a route with an onRequest callback which
\* returned normally; no other step adds an id (events with an unsupported
\* method, an unmatched route, a route without onRequest or a throwing
\* onRequest add none).
C28_RecordOnlyAfterOnRequest ==
    [][\A id \in contextCache' \ contextCache : RecordedBy(id)']_vars

\* C28 witness: the id of a request-phase pause is in contextCache after
\* its onRequest callback returned and the request was continued.
C28_Witness ==
    /\ RecordedBy(last.event.requestId)
    /\ last.event.requestId \in contextCache
    /\ ~last.threw
    /\ Len(last.trace) = 2

\* C28 witness for the events that add no record: a route without
\* onRequest, and a throwing onRequest.
C28_WitnessNoRecord ==
    /\ IsDispatch
    /\ ~CarriesStatus(last.event)
    /\ Matched(last.event)
    /\ "onRequest" \notin ScannedCallbacks(last.event)
    /\ last.event.requestId \notin contextCache

C28_WitnessThrow ==
    /\ IsDispatch
    /\ ~CarriesStatus(last.event)
    /\ last.threw
    /\ Len(last.trace) = 1
    /\ last.trace[1].kind = "onRequest"
    /\ Raised(last.trace[1])
    /\ last.event.requestId \notin contextCache

\* What the dispatch of e issues and whether it fails.
Issued(e, program, reply) ==
    [trace |-> RequestPaused(e, program, reply).trace,
     threw |-> RequestPaused(e, program, reply).threw]

\* What the callback invoked in the trace was made to do (nothing when no
\* callback was invoked).
ProgramOf(trace) ==
    IF \E i \in DOMAIN trace : "program" \in DOMAIN trace[i]
    THEN trace[CHOOSE i \in DOMAIN trace :
                   "program" \in DOMAIN trace[i]].program
    ELSE <<>>

\* C29: what is issued for a response-phase pause does not depend on
\* contextCache.  After the dispatch of a response-phase pause the id has
\* no record, whether or not it had one when the event arrived; the same
\* event, with the same callback behaviour and the same body answer,
\* dispatched again in that state is answered with the same calls and the
\* same failure as the dispatch that was made.
C29_ResponseIgnoresPending ==
    (IsDispatch /\ CarriesStatus(last.event)) =>
        Issued(last.event, ProgramOf(last.trace), last.reply) =
            [trace |-> last.trace, threw |-> last.threw]

\* C29 witness: a response-phase pause whose id had no record (no
\* request-phase pause stored one) was answered by onResponse and
\* fulfillRequest.
C29_Witness ==
    /\ IsDispatch
    /\ CarriesStatus(last.event)
    /\ ~last.pending
    /\ ~last.threw
    /\ Len(last.trace) = 3
    /\ last.trace[2].kind = "onResponse"
    /\ last.trace[3].kind = "fulfillRequest"

\* C29 witness: the same for an id whose record was stored by a preceding
\* request-phase pause.
C29_WitnessPending ==
    /\ IsDispatch
    /\ CarriesStatus(last.event)
    /\ last.pending
    /\ ~last.threw
    /\ Len(last.trace) = 3
    /\ last.trace[2].kind = "onResponse"
    /\ last.trace[3].kind = "fulfillRequest"
    /\ ProgramOf(last.trace) # <<>>
    /\ last.event.requestId \notin contextCache

\* ------------------------------------------------------------------------
\* Invocations of requestPaused for different request ids.  requestPaused
\* is an async function: it runs to its next await and is resumed later,
\* while the invocations for other ids run.  The awaits are the body fetch
\* (line 414), the hashing of the two bodies by compare (lines 396 and
\* 457, through 94-95) and the command (lines 334, 348, 403, 432, 464).
\* ------------------------------------------------------------------------

Flight(pc, e, program, reply, issued, threw, plan, planThrew, alone) ==
    [pc |-> pc, event |-> e, program |-> program, reply |-> reply,
     issued |-> issued, threw |-> threw, plan |-> plan,
     planThrew |-> planThrew, alone |-> alone]

\* The position of the callback invocation in a trace (0 when none).
InvokedAt(trace) ==
    IF \E i \in DOMAIN trace : "program" \in DOMAIN trace[i]
    THEN CHOOSE i \in DOMAIN trace : "program" \in DOMAIN trace[i]
    ELSE 0

\* The callback was invoked and threw.
CallbackRaised(trace) ==
    InvokedAt(trace) > 0 /\ Raised(trace[InvokedAt(trace)])

\* What a run of requestPaused leaves of the state the other invocations
\* share, with what it issued.
Shared(out) ==
    [trace |-> out.trace, threw |-> out.threw,
     contextCache |-> out.contextCache]

\* The flight of an invocation after its synchronous first part, whose
\* complete run from the state of arrival is out.  A request-phase
\* invocation has run its callback (lines 351-387) and is hashing, or has
\* issued its pass-through command; a response-phase invocation has
\* resolved its route (lines 341-346) and is fetching the body.
FlightOnArrival(e, program, reply, out) ==
    IF CallbackRaised(out.trace) /\ IsReq(e)
    THEN Flight("done", e, program, reply, out.trace, TRUE, out.trace, TRUE,
                Shared(out))
    ELSE IF InvokedAt(out.trace) > 0 /\ IsReq(e)
    THEN Flight("hashing", e, program, reply,
                SubSeq(out.trace, 1, InvokedAt(out.trace)), FALSE,
                out.trace, out.threw, Shared(out))
    ELSE IF out.trace # <<>> /\ out.trace[1].kind = "continueRequest"
    THEN Flight("commanded", e, program, reply, out.trace, FALSE,
                out.trace, out.threw, Shared(out))
    ELSE Flight("fetching", e, program, reply, FetchCalls(e), FALSE,
                <<>>, FALSE, Shared(out))

Arrived(id, e, program, reply, out) ==
    /\ inflight[id].pc \in {"none", "done"}
    /\ inflight' = [inflight EXCEPT
                       ![id] = FlightOnArrival(e, program, reply, out)]
    /\ listenersCache' = out.listenersCache
    /\ contextCache' = IF IsReq(e) THEN out.contextCache ELSE contextCache
    /\ UNCHANGED <<listeners, bodyParser, last, stage, transport>>

\* The transport delivers a pause event for id while other invocations
\* are suspended.
Arrive(id, e, program, reply) ==
    /\ last = Idle
    /\ Arrived(id, e, program, reply, RequestPaused(e, program, reply))

\* A resumed invocation that works on the state it saw when the event
\* arrived.
ResumeOutcomeAtArrival(atArrival, atResume) == atArrival

\* Lines 423-446 run when getResponseBody has answered, on the state of
\* that moment.
ResumeOutcome(atArrival, atResume) == atResume

\* The flight of a response-phase invocation after lines 423-446, whose
\* run is out: the body fetch failed, or the callback threw, or the
\* callback returned and compare is hashing, or there is no callback and
\* continueResponse was issued.
FlightOnBody(f, out) ==
    IF InvokedAt(out.trace) = 0 /\ out.trace = f.issued
    THEN [f EXCEPT !.pc = "done", !.threw = out.threw,
                   !.plan = out.trace, !.planThrew = out.threw]
    ELSE IF CallbackRaised(out.trace)
    THEN [f EXCEPT !.pc = "done", !.issued = out.trace, !.threw = TRUE,
                   !.plan = out.trace, !.planThrew = TRUE]
    ELSE IF InvokedAt(out.trace) > 0
    THEN [f EXCEPT !.pc = "hashing",
                   !.issued = SubSeq(out.trace, 1, InvokedAt(out.trace)),
                   !.plan = out.trace, !.planThrew = out.threw]
    ELSE [f EXCEPT !.pc = "commanded", !.issued = out.trace,
                   !.plan = out.trace, !.planThrew = out.threw]

BodyAnswered(id, out) ==
    /\ inflight' = [inflight EXCEPT ![id] = FlightOnBody(inflight[id], out)]
    /\ contextCache' = out.contextCache
    /\ UNCHANGED <<listeners, listenersCache, bodyParser, last, stage,
                   transport>>

\* Fetch.getResponseBody answers (or the resolved promise of a redirect
\* is taken up): the invocation for id resumes at line 423.
BodyFetched(id) ==
    /\ inflight[id].pc = "fetching"
    /\ BodyAnswered(id,
            ResumeOutcome(inflight[id].alone,
                          Shared(RequestPaused(inflight[id].event,
                                               inflight[id].program,
                                               inflight[id].reply))))

\* The digests of compare are ready: the invocation for id resumes at
\* line 397 or 458, and issues its command unless building it throws.
Hashed(id) ==
    /\ inflight[id].pc = "hashing"
    /\ inflight' =
          [inflight EXCEPT
              ![id] = IF Len(inflight[id].plan) > Len(inflight[id].issued)
                      THEN [inflight[id] EXCEPT
                               !.pc = "commanded",
                               !.issued = inflight[id].plan]
                      ELSE [inflight[id] EXCEPT
                               !.pc = "done",
                               !.threw = inflight[id].planThrew]]
    /\ UNCHANGED <<listeners, listenersCache, contextCache, bodyParser, last,
                   stage, transport>>

\* The transport answers the command: the invocation for id ends.
CommandAnswered(id) ==
    /\ inflight[id].pc = "commanded"
    /\ inflight' = [inflight EXCEPT
                       ![id] = [inflight[id] EXCEPT
                                   !.pc = "done",
                                   !.threw = inflight[id].planThrew]]
    /\ UNCHANGED <<listeners, listenersCache, contextCache, bodyParser, last,
                   stage, transport>>

\* What the callbacks of the interleaved invocations do: replace the body,
\* throw.
InterleavedRequestPrograms == {12, 13}
InterleavedResponsePrograms == {8, 9}
\* The responses of the interleaved invocations: a JSON body, a redirect.
InterleavedResponses == {1, 4}

ArriveRequest ==
    \E id \in RequestIds, m \in {"GET", "BAD"},
       pi \in InterleavedRequestPrograms :
        Arrive(id, RequestEvent(id, m, Url(OriginA, PathNine, SearchKV),
                                <<>>, <<>>),
               RequestPrograms[pi], NoReply)

ArriveResponse ==
    \E id \in RequestIds, ci \in InterleavedResponses,
       pi \in InterleavedResponsePrograms, rejects \in BOOLEAN :
        Arrive(id, ResponseEvent(id, "GET", Url(OriginA, PathNine, SearchKV),
                                 <<>>, ResponseContents[ci].post,
                                 ResponseContents[ci].code,
                                 ResponseContents[ci].text,
                                 ResponseContents[ci].headers),
               ResponsePrograms[pi],
               IF rejects
               THEN RejectingReply(ResponseContents[ci].reply,
                                   "getResponseBody")
               ELSE ResponseContents[ci].reply)

NextInterleave ==
    \/ \E i \in {1, 2} : Handle(Registrations[i])
    \/ Return
    \/ ArriveRequest
    \/ ArriveResponse
    \/ \E id \in RequestIds : BodyFetched(id)
    \/ \E id \in RequestIds : Hashed(id)
    \/ \E id \in RequestIds : CommandAnswered(id)

SpecInterleave == Init /\ [][NextInterleave]_vars

\* C30: invocations of requestPaused for different request ids interleave
\* at every await in any order, and for each id: the calls issued so far
\* are a prefix of those the invocation would issue if it ran alone from
\* the state of its arrival; once it has ended it has issued exactly those
\* calls and failed exactly if it would have alone; and the id has a
\* record in contextCache exactly if it would have one after the run
\* alone, so that contextCache holds what running the invocations one
\* after the other would leave.
C30_InterleavingIndependent ==
    \A id \in RequestIds :
        inflight[id].pc # "none" =>
            /\ Len(inflight[id].issued) <= Len(inflight[id].alone.trace)
            /\ inflight[id].issued =
                  SubSeq(inflight[id].alone.trace, 1,
                         Len(inflight[id].issued))
            /\ inflight[id].pc = "done" =>
                  /\ inflight[id].issued = inflight[id].alone.trace
                  /\ inflight[id].threw = inflight[id].alone.threw
                  /\ (id \in contextCache) =
                        (id \in inflight[id].alone.contextCache)

\* C30 witness: the invocation for r2 stored its record and issued its
\* command while the invocation for r1 was suspended on its body fetch,
\* and the invocation for r1 then ran its callback, deleted its record
\* and fulfilled the request.
C30_Witness ==
    /\ inflight["r1"].pc = "done"
    /\ inflight["r2"].pc = "done"
    /\ CarriesStatus(inflight["r1"].event)
    /\ ~CarriesStatus(inflight["r2"].event)
    /\ Len(inflight["r1"].issued) = 3
    /\ inflight["r1"].issued[3].kind = "fulfillRequest"
    /\ Len(inflight["r2"].issued) = 2
    /\ "r2" \notin inflight["r1"].alone.contextCache
    /\ contextCache = {"r2"}

\* C30 witness: both invocations are suspended, one hashing and one
\* fetching.
C30_WitnessSuspended ==
    /\ inflight["r1"].pc = "hashing"
    /\ inflight["r2"].pc = "fetching"

\* C31: when onRequest assigned this.url and also changed params or
\* query, the url of the continueRequest is the event's URL with the path
\* regenerated from the parameters (if they changed) and the query string
\* reserialised from the query map (if it changed), and the callback's
\* url is not in it; when neither params nor query changed, the url of the
\* continueRequest is the callback's url.
C31_UrlAssignmentYieldsToDerivedUrl ==
    (IsDispatch /\ ~last.threw) =>
        \A i \in DOMAIN Invocations(last.trace) :
            LET c == Invocations(last.trace)[i]
                paramsChanged ==
                    EntrySet(c.after.params) # EntrySet(c.this.params)
                queryChanged ==
                    EntrySet(c.after.query) # EntrySet(c.this.query)
            IN  (c.kind = "onRequest" /\ c.after.url # c.this.url) =>
                  /\ Continue.kind = "continueRequest"
                  /\ "url" \in DOMAIN Continue.args
                  /\ IF paramsChanged \/ queryChanged
                     THEN /\ Continue.args.url # c.after.url
                          /\ Continue.args.url.origin
                                = last.event.request.url.origin
                          /\ Continue.args.url.pathname
                                = IF paramsChanged
                                  THEN Instantiate(RouteOf(c).pattern,
                                                   c.after.params)
                                  ELSE last.event.request.url.pathname
                          /\ Continue.args.url.search
                                = IF queryChanged
                                  THEN UrlSearchParamsToString(c.after.query)
                                  ELSE last.event.request.url.search
                     ELSE Continue.args.url = c.after.url

\* C31 witness: the callback assigned the url http://a/foo and added j=w
\* to the query; the continueRequest url is /test/9?k=v&j=w.
C31_Witness ==
    /\ IsDispatch
    /\ Len(last.trace) = 2
    /\ last.trace[1].kind = "onRequest"
    /\ last.trace[1].after.url = Url(OriginA, << <<"foo">> >>, <<>>)
    /\ MapHas(last.trace[1].after.query, <<"j">>)
    /\ last.trace[2].args.url =
          Url(OriginA, PathNine, <<"k", "=", "v", "&", "j", "=", "w">>)

\* C31 witness: the callback assigned the url and set the parameter id.
C31_WitnessParams ==
    /\ IsDispatch
    /\ Len(last.trace) = 2
    /\ last.trace[1].kind = "onRequest"
    /\ last.trace[1].after.url = Url(OriginA, << <<"foo">> >>, <<>>)
    /\ MapGet(last.trace[1].after.params, <<"id">>) = <<"12345">>
    /\ last.trace[2].args.url.pathname = << <<"test">>, <<"12345">> >>
    /\ last.trace[2].args.url.search = SearchKV

\* C31 witness: the callback only assigned the url, which is sent.
C31_WitnessUrlOnly ==
    /\ IsDispatch
    /\ Len(last.trace) = 2
    /\ last.trace[1].kind = "onRequest"
    /\ last.trace[1].after.url = Url(OriginA, << <<"foo">> >>, <<>>)
    /\ last.trace[1].after.query = last.trace[1].this.query
    /\ last.trace[1].after.params = last.trace[1].this.params
    /\ last.trace[2].args.url = Url(OriginA, << <<"foo">> >>, <<>>)

\* The number of entries of the list that are equal to the pair.
Occurrences(entries, pair) ==
    Cardinality({i \in DOMAIN entries : entries[i] = pair})

\* C32: the query presented to onRequest keeps every occurrence of a
\* repeated key of the URL's query string, in order; and when the callback
\* changed the query, the query string of the continueRequest url still
\* carries every key=value pair of the event's query string as often as
\* the event's query string does.
C32_RepeatedQueryKeysKept ==
    IsDispatch =>
        \A i \in DOMAIN Invocations(last.trace) :
            LET c == Invocations(last.trace)[i]
                sent == UrlSearchParamsParse(last.event.request.url.search)
            IN  c.kind = "onRequest" =>
                  /\ c.this.query = sent
                  /\ ( /\ ~last.threw
                       /\ MapHas(c.after.query, <<"j">>) ) =>
                        \A j \in DOMAIN sent :
                            Occurrences(
                                UrlSearchParamsParse(Continue.args.url.search),
                                sent[j])
                              = Occurrences(sent, sent[j])

\* The same for the query strings that repeat no key, for which it holds.
C32_DistinctQueryKeysKept ==
    (IsDispatch /\ last.event.request.url.search # SearchRepeated) =>
        \A i \in DOMAIN Invocations(last.trace) :
            (Invocations(last.trace)[i].kind = "onRequest") =>
                Invocations(last.trace)[i].this.query =
                    UrlSearchParamsParse(last.event.request.url.search)

\* The callback invocation c left the method, url, status and body of
\* `this` as they were.
ScalarsKept(c) ==
    /\ c.after.body = c.this.body
    /\ IF c.kind = "onRequest"
       THEN c.after.method = c.this.method /\ c.after.url = c.this.url
       ELSE /\ c.after.statusCode = c.this.statusCode
            /\ c.after.statusText = c.this.statusText

\* The two maps hold the same keys with the same values.
SameEntries(m1, m2) == Len(m1) = Len(m2) /\ EntrySet(m1) = EntrySet(m2)

\* Every map of `this` holds the same keys and values after the callback
\* (and the formatting of the header names) as before.
MapsKept(c) ==
    /\ SameEntries(FormatHeaders(c.after[HeadersField(c.after)]),
                   c.this[HeadersField(c.this)])
    /\ SameEntries(c.after.form, c.this.form)
    /\ c.kind = "onRequest" =>
          /\ SameEntries(c.after.params, c.this.params)
          /\ SameEntries(c.after.query, c.this.query)

\* C33: the diff takes two maps (headers, params, query, form) for equal
\* exactly when they have the same size and the same value for every key,
\* in whatever order the entries were inserted: for a callback that left
\* the other fields alone, the command is the minimal one exactly when
\* every map holds the same keys and values as before.
C33_MapComparisonIgnoresOrder ==
    (IsDispatch /\ ~last.threw) =>
        \A i \in DOMAIN Invocations(last.trace) :
            ScalarsKept(Invocations(last.trace)[i]) =>
                (MapsKept(Invocations(last.trace)[i])
                   <=> DOMAIN Continue.args \cap OverrideFields(Continue.kind)
                         = {})

\* C33 witness: onResponse deleted the header foo and set it again, which
\* moved it behind content-type, and the fulfillRequest is the minimal one.
C33_Witness ==
    /\ IsDispatch
    /\ ~last.threw
    /\ Len(last.trace) = 3
    /\ last.trace[2].kind = "onResponse"
    /\ last.trace[2].after.responseHeaders # last.trace[2].this.responseHeaders
    /\ EntrySet(last.trace[2].after.responseHeaders)
          = EntrySet(last.trace[2].this.responseHeaders)
    /\ DOMAIN last.trace[3].args = {"requestId", "responseCode"}

\* C33 witness: onRequest reordered the query and the continueRequest is
\* the minimal one.
C33_WitnessQuery ==
    /\ IsDispatch
    /\ ~last.threw
    /\ Len(last.trace) = 2
    /\ last.trace[1].kind = "onRequest"
    /\ last.trace[1].after.query # last.trace[1].this.query
    /\ EntrySet(last.trace[1].after.query) = EntrySet(last.trace[1].this.query)
    /\ DOMAIN last.trace[2].args = {"requestId", "interceptResponse"}

\* C33 witness: a changed value of a key is reported as a change.
C33_WitnessChanged ==
    /\ IsDispatch
    /\ ~last.threw
    /\ Len(last.trace) = 2
    /\ last.trace[1].kind = "onRequest"
    /\ ScalarsKept(last.trace[1])
    /\ Len(last.trace[1].after.requestHeaders)
          = Len(last.trace[1].this.requestHeaders)
    /\ ~MapsKept(last.trace[1])
    /\ "headers" \in DOMAIN last.trace[2].args

\* The callback invocation c left every field of `this` but the body as
\* it was.
OthersKept(c) ==
    /\ MapsKept(c)
    /\ IF c.kind = "onRequest"
       THEN c.after.method = c.this.method /\ c.after.url = c.this.url
       ELSE /\ c.after.statusCode = c.this.statusCode
            /\ c.after.statusText = c.this.statusText

\* The callback assigned a buffer to this.body.
AssignedBody(c) == \E i \in DOMAIN c.program : c.program[i].op = "body"

\* C34: the diff compares the bodies by their bytes: for a callback that
\* left the other fields alone, the command is the minimal one exactly
\* when the body holds the same bytes after the callback as before, also
\* when the callback assigned a new buffer.
C34_BodyComparedByContent ==
    (IsDispatch /\ ~last.threw) =>
        \A i \in DOMAIN Invocations(last.trace) :
            OthersKept(Invocations(last.trace)[i]) =>
                ((Invocations(last.trace)[i].after.body
                    = Invocations(last.trace)[i].this.body)
                   <=> DOMAIN Continue.args \cap OverrideFields(Continue.kind)
                         = {})

\* C34 witness: onRequest assigned a new buffer with the bytes of the
\* posted JSON text, and the continueRequest is the minimal one.
C34_Witness ==
    /\ IsDispatch
    /\ ~last.threw
    /\ Len(last.trace) = 2
    /\ last.trace[1].kind = "onRequest"
    /\ AssignedBody(last.trace[1])
    /\ last.trace[1].this.body = JsonFooBar
    /\ last.trace[1].after.body = JsonFooBar
    /\ DOMAIN last.trace[2].args = {"requestId", "interceptResponse"}

\* C34 witness: the same for onResponse and the fetched body.
C34_WitnessResponse ==
    /\ IsDispatch
    /\ ~last.threw
    /\ Len(last.trace) = 3
    /\ last.trace[2].kind = "onResponse"
    /\ AssignedBody(last.trace[2])
    /\ last.trace[2].after.body = last.trace[2].this.body
    /\ last.trace[2].this.body # <<>>
    /\ DOMAIN last.trace[3].args = {"requestId", "responseCode"}

\* C34 witness: other bytes are reported as a change.
C34_WitnessChanged ==
    /\ IsDispatch
    /\ ~last.threw
    /\ Len(last.trace) = 2
    /\ last.trace[1].kind = "onRequest"
    /\ OthersKept(last.trace[1])
    /\ last.trace[1].this.body = JsonFooBar
    /\ last.trace[1].after.body = HtmlInjected
    /\ "postData" \in DOMAIN last.trace[2].args

\* The codec resolved for the headers of `this` of invocation c before
\* the callback, and for its headers after the callback and the
\* formatting of the names.
CodecBefore(c) ==
    GetBodyParser(bodyParser, ContentTypeHeader(c.this[HeadersField(c.this)]))

PostCodec(c) ==
    GetBodyParser(bodyParser,
        ContentTypeHeader(FormatHeaders(c.after[HeadersField(c.after)])))

\* The bytes sent when the form is left out of the choice.
RawBytes(c) == IF c.after.body # <<>> THEN c.after.body ELSE c.this.body

\* C35: a content type with parameters resolves to the codec of the bare
\* type/subtype, and an absent or unregistered content type resolves to
\* no codec.  A request with the content type application/json;
\* charset=utf-8 presents the form parsed by the JSON codec.  When no
\* codec is resolved for the message the form presented to the callback
\* is empty, and when no codec is resolved for the callback's result the
\* body of a changed message is its raw bytes, not the encoded form.
C35_ContentTypeResolution ==
    /\ \A ct \in ContentTypes :
          GetBodyParser(bodyParser, ct \o <<";", " charset=utf-8">>)
              = GetBodyParser(bodyParser, ct)
    /\ GetBodyParser(bodyParser, ApplicationJsonCharset)
          = MapGet(bodyParser, ApplicationJson)
    /\ GetBodyParser(bodyParser, TextHtml) = Undefined
    /\ GetBodyParser(bodyParser, <<>>) = Undefined
    /\ IsDispatch =>
          \A i \in DOMAIN Invocations(last.trace) :
              LET c == Invocations(last.trace)[i]
              IN  /\ CodecBefore(c) = Undefined => c.this.form = <<>>
                  /\ ( /\ c.kind = "onRequest"
                       /\ ContentTypeHeader(c.this.requestHeaders)
                             = ApplicationJsonCharset
                       /\ c.this.body = JsonFooBar ) =>
                        c.this.form = << << <<"foo">>, <<"bar">> >> >>
                  /\ ( /\ ~last.threw
                       /\ PostCodec(c) = Undefined
                       /\ "postData" \in DOMAIN Continue.args ) =>
                        Continue.args.postData = ToBase64(RawBytes(c))
                  /\ ( /\ ~last.threw
                       /\ PostCodec(c) = Undefined
                       /\ "body" \in DOMAIN Continue.args ) =>
                        Continue.args.body.data \in
                            {RawBytes(c), TextDecode(RawBytes(c))}

\* C35 witness: a request with the content type application/json;
\* charset=utf-8 and a JSON body presented the form parsed from it.
C35_Witness ==
    /\ IsDispatch
    /\ Len(last.trace) >= 1
    /\ last.trace[1].kind = "onRequest"
    /\ ContentTypeHeader(last.trace[1].this.requestHeaders)
          = ApplicationJsonCharset
    /\ last.trace[1].this.form = << << <<"foo">>, <<"bar">> >> >>

\* C35 witness: a request with the content type text/html presented an
\* empty form; the callback set a form entry and the continueRequest
\* carries the raw body.
C35_WitnessNoCodec ==
    /\ IsDispatch
    /\ ~last.threw
    /\ Len(last.trace) = 2
    /\ last.trace[1].kind = "onRequest"
    /\ ContentTypeHeader(last.trace[1].this.requestHeaders) = TextHtml
    /\ last.trace[1].this.form = <<>>
    /\ last.trace[1].after.form # <<>>
    /\ last.trace[2].args.postData = ToBase64(JsonFooBar)

\* No callback of the dispatch threw and no transport call was rejected.
Undisturbed ==
    /\ IsDispatch
    /\ "rejects" \notin DOMAIN last.reply
    /\ \A i \in DOMAIN Invocations(last.trace) :
          ~Raised(Invocations(last.trace)[i])

\* C36: provided the callback does not throw and every transport call
\* completes, the dispatch of a pause event ends with exactly one resume
\* command (continueRequest, continueResponse or fulfillRequest), issued
\* for the requestId of the event: never none and never two.
C36_ExactlyOneResume ==
    Undisturbed =>
        /\ ~last.threw
        /\ Len(Resumes(last.trace)) = 1
        /\ Resumes(last.trace)[1].args.requestId = last.event.requestId

\* The same for the dispatches whose callback left the path parameters as
\* they were, for which it holds.
C36_ExactlyOneResumeParamsKept ==
    ( /\ Undisturbed
      /\ \A i \in DOMAIN Invocations(last.trace) :
            Invocations(last.trace)[i].kind = "onRequest" =>
                Invocations(last.trace)[i].after.params
                    = Invocations(last.trace)[i].this.params ) =>
        /\ ~last.threw
        /\ Len(Resumes(last.trace)) = 1
        /\ Resumes(last.trace)[1].args.requestId = last.event.requestId

\* The callback invocation c changed the content of `this`: a scalar
\* field, the bytes of the body, or the keys and values of a map.
ContentChanged(c) ==
    \/ ~OthersKept(c)
    \/ c.after.body # c.this.body

C37_WitnessResponse ==
    /\ IsDispatch
    /\ ~last.threw
    /\ Len(last.trace) = 3
    /\ last.trace[2].kind = "onResponse"
    /\ last.trace[2].after.responseHeaders # last.trace[2].this.responseHeaders
    /\ ContentChanged(last.trace[2])
    /\ {"responsePhrase", "responseHeaders", "body"}
          \subseteq DOMAIN last.trace[3].args

\* C38: the dispatch of a pause event, whatever its phase and outcome,
\* leaves the route table (the routes and their order) and the codec
\* registry as they were; the route table changes only in a step of handle
\* or any (get and post are handle with a fixed method), the codec
\* registry only in a step of registerBodyParser.
C38_DispatchLeavesTables ==
    [][ /\ (last'.op = "requestPaused") =>
             (listeners' = listeners /\ bodyParser' = bodyParser)
        /\ (listeners' # listeners) => (last'.op \in {"handle", "any"})
        /\ (bodyParser' # bodyParser) => (last'.op = "registerBodyParser")
      ]_vars

\* C38 witness: a dispatch that ran a callback, stored the per-key array
\* and the record of the request, with two routes in the table.
C38_Witness ==
    /\ IsDispatch
    /\ RouteCount(listeners) = 2
    /\ Invocations(last.trace) # <<>>
    /\ last.event.requestId \in contextCache
    /\ DOMAIN listenersCache # {}

\* C38 witness: a failed dispatch.
C38_WitnessThrew ==
    /\ IsDispatch
    /\ last.threw
    /\ RouteCount(listeners) >= 1

\* The fulfillRequest commands of the latest dispatch that carry a body,
\* each with the callback invocation before it.
FulfilledWithBody ==
    {i \in 2..Len(last.trace) :
        /\ last.trace[i].kind = "fulfillRequest"
        /\ "body" \in DOMAIN last.trace[i].args
        /\ last.trace[i - 1].kind = "onResponse"}

\* C39: whenever a fulfillRequest command carries a body, the body is the
\* base64 text of the selected body bytes, whether getResponseBody
\* reported the original body as base64 or as plain text.
C39_FulfillBodyIsBase64 ==
    IsDispatch =>
        \A i \in FulfilledWithBody :
            last.trace[i].args.body = ToBase64(SelectedBody(last.trace[i - 1]))

\* C39 for the replies getResponseBody reported as base64-encoded, and
\* for redirects, where line 414 takes the reply to be base64.
C39_FulfillBodyIsBase64WhenReported ==
    (IsDispatch /\ CarriesStatus(last.event)
                /\ Fetched(last.event, last.reply).base64Encoded) =>
        \A i \in FulfilledWithBody :
            last.trace[i].args.body = ToBase64(SelectedBody(last.trace[i - 1]))

\* The latest dispatch fulfilled a response whose body was reported as
\* base64, with a body.
C39_WitnessReported ==
    /\ IsDispatch
    /\ last.reply.base64Encoded
    /\ FulfilledWithBody # {}

\* The latest dispatch fulfilled a response whose body was reported as
\* plain text, and the command carries the plain text of the body.
C39_WitnessPlain ==
    /\ IsDispatch
    /\ ~last.reply.base64Encoded
    /\ \E i \in FulfilledWithBody :
           last.trace[i].args.body
              = PlainString(TextDecode(SelectedBody(last.trace[i - 1])))

\* The header list of a command; empty when the command carries none.
HeaderList(r) ==
    IF r.kind = "continueRequest" /\ "headers" \in DOMAIN r.args
    THEN r.args.headers
    ELSE IF r.kind = "fulfillRequest" /\ "responseHeaders" \in DOMAIN r.args
         THEN r.args.responseHeaders
         ELSE <<>>

\* The entries of a header list whose name is `name` ignoring case.
EntriesNamed(hdrs, name) ==
    {j \in DOMAIN hdrs : ToLowerCase(hdrs[j][1]) = ToLowerCase(name)}

\* The callback of invocation c left an entry j of its header map under a
\* name with an upper-case letter, while `this` held the lower-case name
\* on entry; no other entry differs from that name in case only.
Recased(c, j) ==
    LET before == c.this[HeadersField(c.this)]
        after == c.after[HeadersField(c.after)]
    IN  /\ HasUpperCase(after[j][1])
        /\ MapHas(before, ToLowerCase(after[j][1]))
        /\ \A k \in EntriesNamed(after, after[j][1]) :
              k = j \/ ~HasUpperCase(after[k][1])

\* Apart from the casing of header names, invocation c left every field
\* of `this` with the content it had.
OnlyCasingDiffers(c) ==
    /\ ScalarsKept(c)
    /\ FoldedEntrySet(c.after[HeadersField(c.after)])
          = EntrySet(c.this[HeadersField(c.this)])
    /\ SameEntries(c.after.form, c.this.form)
    /\ c.kind = "onRequest" =>
          /\ SameEntries(c.after.params, c.this.params)
          /\ SameEntries(c.after.query, c.this.query)

\* C40: the header list of an emitted command never holds two entries
\* whose names are equal ignoring case. When the callback set a header
\* under a casing that differs from an existing lower-case entry, a
\* command that lists headers has exactly one entry of that name, with
\* the callback's value; and when that value is the existing one and
\* nothing else changed, the command carries no overriding field.
C40_NoHeaderTwiceIgnoringCase ==
    IsDispatch =>
      /\ \A i \in DOMAIN last.trace :
            \A j, k \in DOMAIN HeaderList(last.trace[i]) :
                (ToLowerCase(HeaderList(last.trace[i])[j][1])
                    = ToLowerCase(HeaderList(last.trace[i])[k][1])) => j = k
      /\ \A i \in 2..Len(last.trace) :
            (/\ last.trace[i - 1].kind \in {"onRequest", "onResponse"}
             /\ last.trace[i].kind \in {"continueRequest", "fulfillRequest"}) =>
              /\ \A j \in DOMAIN last.trace[i - 1].after[HeadersField(last.trace[i - 1].after)] :
                    (/\ Recased(last.trace[i - 1], j)
                     /\ HeaderList(last.trace[i]) # <<>>) =>
                        \E k \in DOMAIN HeaderList(last.trace[i]) :
                            /\ EntriesNamed(HeaderList(last.trace[i]),
                                  last.trace[i - 1].after[HeadersField(last.trace[i - 1].after)][j][1]) = {k}
                            /\ HeaderList(last.trace[i])[k]
                                 = <<ToLowerCase(last.trace[i - 1].after[HeadersField(last.trace[i - 1].after)][j][1]),
                                     last.trace[i - 1].after[HeadersField(last.trace[i - 1].after)][j][2]>>
              /\ ((\E j \in DOMAIN last.trace[i - 1].after[HeadersField(last.trace[i - 1].after)] :
                        Recased(last.trace[i - 1], j))
                    /\ OnlyCasingDiffers(last.trace[i - 1])) =>
                    DOMAIN last.trace[i].args
                        \cap OverrideFields(last.trace[i].kind) = {}

\* C40 witness: the callback set FoO: baz while `this` held foo: bar, and
\* the continueRequest lists foo once, with the value baz.
C40_Witness ==
    /\ IsDispatch
    /\ Len(last.trace) = 2
    /\ last.trace[1].kind = "onRequest"
    /\ HasUpperCase(NameFoO)
    /\ MapGet(last.trace[1].this.requestHeaders, ToLowerCase(NameFoO)) = <<"bar">>
    /\ MapGet(last.trace[1].after.requestHeaders, ToLowerCase(NameFoO)) = <<"bar">>
    /\ MapGet(last.trace[1].after.requestHeaders, NameFoO) = <<"baz">>
    /\ last.trace[2].kind = "continueRequest"
    /\ Cardinality(EntriesNamed(HeaderList(last.trace[2]), NameFoO)) = 1
    /\ MapGet(HeaderList(last.trace[2]), ToLowerCase(NameFoO)) = <<"baz">>

\* C40 witness: the callback set FoO: bar while `this` held foo: bar, and
\* the command carries the request id only.
C40_WitnessSameValue ==
    /\ IsDispatch
    /\ Len(last.trace) = 2
    /\ last.trace[1].kind = "onRequest"
    /\ \E j \in DOMAIN last.trace[1].after.requestHeaders :
          Recased(last.trace[1], j)
    /\ OnlyCasingDiffers(last.trace[1])
    /\ last.trace[2].kind = "continueRequest"
    /\ DOMAIN last.trace[2].args \cap OverrideFields("continueRequest") = {}

\* C40 witness: the same renaming in the response phase.
C40_WitnessResponse ==
    /\ IsDispatch
    /\ \E i \in 2..Len(last.trace) :
          /\ last.trace[i - 1].kind = "onResponse"
          /\ \E j \in DOMAIN last.trace[i - 1].after.responseHeaders :
                Recased(last.trace[i - 1], j)
          /\ last.trace[i].kind = "fulfillRequest"
          /\ MapGet(HeaderList(last.trace[i]), ToLowerCase(NameFoO)) = <<"baz">>

\* C40 witness: onResponse set FoO: bar over foo: bar, and the command
\* carries the request id and the status code only.
C40_WitnessResponseSameValue ==
    /\ IsDispatch
    /\ \E i \in 2..Len(last.trace) :
          /\ last.trace[i - 1].kind = "onResponse"
          /\ \E j \in DOMAIN last.trace[i - 1].after.responseHeaders :
                Recased(last.trace[i - 1], j)
          /\ OnlyCasingDiffers(last.trace[i - 1])
          /\ last.trace[i].kind = "fulfillRequest"
          /\ DOMAIN last.trace[i].args = {"requestId", "responseCode"}

====
